---------------------------- MODULE Spec2Model ----------------------------
(***************************************************************************)
(* Copua (Lua CoAP binding, src/src/copua.c): the message/connection       *)
(* object lifecycle, the method dispatcher's access control and the        *)
(* handler dispatch bridge, as a state machine.                            *)
(*                                                                         *)
(* The script is the environment: at every step it may call any library    *)
(* function or object method with any argument of the small input sets     *)
(* below, let the garbage collector finalize an object, or call            *)
(* process_step, inside which the engine may deliver one event to the      *)
(* request / response / NACK callback.  A callback is split at its         *)
(* lua_call(): the part before it, the script's handler body (ordinary     *)
(* script steps) and the part after it.  Errors raised by a library call   *)
(* are recorded in `res` (the script is taken to pcall them).              *)
(*                                                                         *)
(* The CoAP engine (libcoap) is external: coap_send() takes ownership of   *)
(* the PDU and releases it when it likes; a PDU handed to a callback is    *)
(* released by the engine after the callback returned.  Touching released  *)
(* memory is undefined behaviour: the model lets the call either crash     *)
(* the process or go on with an arbitrary value.                           *)
(***************************************************************************)
EXTENDS Integers, Sequences, FiniteSets, TLC

(* ------------------------------ bounds -------------------------------- *)
MaxPdus == 2
MaxObjs == 2
MaxConns == 2
MaxMsgs == 1
MaxSess == 1
MaxSends == 2
MaxRefs == 12
MaxEps == 1
MaxOpts == 2
MaxIters == 1
MaxFin == 2

(* ------------------------- program constants -------------------------- *)
ACS_NO_HNDLR == 0
ACS_REQ_HNDLR == 1
ACS_RESP_HNDLR == 2
ACS_NACK_HNDLR == 3
LUA_NOREF == -2
MAX_COAP_PDU_SIZE == 1152
COAP_MESSAGE_CON == 0
COAP_MESSAGE_NON == 1
COAP_MESSAGE_ACK == 2
COAP_INVALID_TID == -1
COAP_REQUEST_GET == 1
COAP_REQUEST_POST == 2
COAP_REQUEST_PUT == 3
COAP_REQUEST_DELETE == 4
COAP_REQUEST_FETCH == 5
COAP_REQUEST_PATCH == 6
COAP_REQUEST_IPATCH == 7

(* the default handlers' global names, as their ASCII bytes:               *)
(* "coap_req_handler", "coap_resp_handler", "coap_nack_handler"            *)
REQ_HANDLER ==
    <<99, 111, 97, 112, 95, 114, 101, 113, 95,
      104, 97, 110, 100, 108, 101, 114>>
RESP_HANDLER ==
    <<99, 111, 97, 112, 95, 114, 101, 115, 112, 95,
      104, 97, 110, 100, 108, 101, 114>>
NACK_HANDLER ==
    <<99, 111, 97, 112, 95, 110, 97, 99, 107, 95,
      104, 97, 110, 100, 108, 101, 114>>

PduIds == 1..MaxPdus
ObjIds == 1..MaxObjs
ConnIds == 1..MaxConns
IterIds == 1..MaxIters
RefIds == 1..MaxRefs
(* session 0 is the engine's server-side session of the bound endpoint,    *)
(* 1..MaxSess are client sessions opened by new_connection                 *)
ServerSess == 0
SessIds == 0..MaxSess
NoPdu == 0
NoObj == 0

(* ---------------------------- Lua values ------------------------------ *)
(* t: none (argument absent), nil, boolean, number, string, table,         *)
(* function, other (a userdata);                                           *)
(* n: the number / the boolean as 0,1; s: the string's bytes;              *)
(* e: the table's array part, each element [t, n, s].                      *)
(* A number of 2^31 or more is kept by its big-endian base-256 digits      *)
(* (LBig), lua_Integer being wider than the integers computed with here.   *)
LV(t, n, s, e) == [t |-> t, n |-> n, s |-> s, e |-> e]
LNone == LV("none", 0, <<>>, <<>>)
LNil == LV("nil", 0, <<>>, <<>>)
LNum(n) == LV("number", n, <<>>, <<>>)
LBig(d) == LV("number", 0, d, <<>>)
LBool(b) == LV("boolean", IF b THEN 1 ELSE 0, <<>>, <<>>)
LStr(s) == LV("string", 0, s, <<>>)
LTab(e) == LV("table", 0, <<>>, e)
LFun == LV("function", 0, <<>>, <<>>)
LOther == LV("other", 0, <<>>, <<>>)
ENum(n) == [t |-> "number", n |-> n, s |-> <<>>]
EStr == [t |-> "string", n |-> 0, s |-> <<>>]
EStrOf(s) == [t |-> "string", n |-> 0, s |-> s]

(* the i-th script argument after the optional self reference *)
Arg(a, i) == IF i <= Len(a) THEN a[i] ELSE LNone

(* ------------------------------ bit ops ------------------------------- *)
RECURSIVE BitOr(_, _)
BitOr(x, y) ==
    IF x = 0 THEN y
    ELSE IF y = 0 THEN x
    ELSE (IF (x % 2 = 1) \/ (y % 2 = 1) THEN 1 ELSE 0)
         + 2 * BitOr(x \div 2, y \div 2)

(* COAP_RESPONSE_CODE(N) of libcoap, stored in the PDU's 8-bit code field *)
COAP_RESPONSE_CODE(N) == BitOr((N \div 100) * 32, N % 100) % 256

(* the code as get_code reports it: 100 * class + detail *)
CodeToLua(c) == 100 * (c \div 32) + (c % 32)

(* ------------------------------- state -------------------------------- *)
VARIABLES
    pdus,       \* PduIds -> engine PDU
    objs,       \* ObjIds -> PDU userdata object (ud_coap_pdu_t)
    conns,      \* ConnIds -> connection userdata object (ud_connection_t)
    sessions,   \* SessIds -> engine session
    lib_ctx,    \* the library context (lib_ctx_t)
    globals,    \* the global function names the script has defined
    registry,   \* the Lua registry's live references (luaL_ref)
    iters,      \* IterIds -> iteration state userdata the script holds
    cached,     \* a method closure the script keeps: [o, fn] or NoClosure
    hctx,       \* the callback the engine is inside: [kind, a, b]
    res,        \* outcome of the last library call or engine callback
    halted      \* the process crashed (undefined behaviour took that turn)

vars ==
    <<pdus, objs, conns, sessions, lib_ctx, globals, registry, iters,
      cached, hctx, res, halted>>


(* --------------------------- small input sets ------------------------- *)
TypeIn == {COAP_MESSAGE_CON, COAP_MESSAGE_NON}
CodeIn == {205}
PortIn == {5683, 65535}
OkIn == {TRUE}
ReqCodeIn == {COAP_REQUEST_GET}
PayloadIn ==
    {LNone, LStr(<<111, 107>>), LTab(<<ENum(111), ENum(363)>>), LOther}

(* --------------------------- record shapes ---------------------------- *)
(* st: unused | live | freed; made: who allocated it (script: new_msg,     *)
(* engine: for a callback); own: who has to release it (script | engine);  *)
(* q: the session the engine keeps the PDU queued on (-1: not queued);     *)
(* nsend: how often it was handed to coap_send(); ndel: how often          *)
(* _pdu_obj_gc deleted it; token: the token's bytes; opts: the options in  *)
(* the order they were added, each [type, val] with val the raw bytes.     *)
(* A freed PDU's content is indeterminate and kept as zeroes.              *)
NoPduRec ==
    [st |-> "unused", made |-> "script", own |-> "script", type |-> 0,
     code |-> 0, tid |-> 0, data |-> <<>>, q |-> -1, nsend |-> 0, ndel |-> 0,
     token |-> <<>>, opts |-> <<>>]

NoObjRec ==
    [st |-> "none", pdu |-> NoPdu, session |-> -1, def_code |-> 0,
     ro |-> 0, lck |-> 0, hndlr |-> ACS_NO_HNDLR]

(* by: the library function that made the connection object (not a field  *)
(* of ud_connection_t; kept to state who made it)                          *)
NoConnRec == [st |-> "none", session |-> -1, gc |-> 0, by |-> "-"]

(* max_retransmit: the session's unsigned int, by its four bytes;         *)
(* ack_timeout: its coap_fixed_point_t of two uint16_t.  The values are   *)
(* the engine's defaults, which a session starts with.                    *)
NoSessRec ==
    [st |-> "none", nrel |-> 0, max_retransmit |-> <<0, 0, 0, 4>>,
     ack_timeout |-> [integer_part |-> 2, fractional_part |-> 0]]

NoClosure == [o |-> NoObj, fn |-> "-"]

(* an iteration state: the engine's coap_opt_iterator_t (pdu: the PDU its  *)
(* pointer leads into; next: the index of the option it points at; length: *)
(* the options left between the pointer and the end it recorded; type:     *)
(* the type of the option it passed last; bad; filtered, filter) and, for  *)
(* a query iteration, refs and n_refs of coap_qstr_param_iter_state_t.     *)
(* names[k] is what the registry holds at refs[k].  Not fields of the      *)
(* structures: kind (options | qstr), fin (how many steps returned the     *)
(* completion value, counted up to MaxFin) and nunref (how often           *)
(* luaL_unref was called for a reference of this state).                   *)
NoIterRec ==
    [st |-> "none", kind |-> "-", pdu |-> NoPdu, next |-> 0, length |-> 0,
     bad |-> FALSE, filtered |-> FALSE, filter |-> {}, refs |-> <<>>,
     n_refs |-> 0, names |-> <<>>, fin |-> 0, nunref |-> 0]

NoIters == [i \in IterIds |-> NoIterRec]

NoRes == [op |-> "-", err |-> "none", val |-> LNil]

Min(S) == CHOOSE x \in S : \A y \in S : x <= y

(* The tables stand for the heap: a slot is taken again once nothing the   *)
(* script can reach refers to what it held.                                *)
FreeObjs == {o \in ObjIds : objs[o].st = "none"}

FreeConns == {c \in ConnIds : conns[c].st = "none"}

FreePdus == {p \in PduIds : pdus[p].st = "unused"}

FreeSess == {s \in SessIds \ {ServerSess} : sessions[s].st = "none"}

(* connection objects have no identity the model needs: the table is kept  *)
(* packed and in one order, so that two states that differ in the slots'   *)
(* order only are one state                                                *)
Pack(cn) ==
    LET alive == {c \in ConnIds : cn[c].st = "alive"}
        key(c) == 2 * cn[c].session + cn[c].gc
        rank(c) == Cardinality({d \in alive :
                                   \/ key(d) < key(c)
                                   \/ key(d) = key(c) /\ d < c}) + 1
    IN  [i \in ConnIds |->
            IF i <= Cardinality(alive)
            THEN cn[CHOOSE c \in alive : rank(c) = i]
            ELSE NoConnRec]

(* a released session that no connection object and no PDU object refers   *)
(* to any more: its slot is as good as unused                              *)
SweepSess(ss, cn, ob) ==
    [s \in SessIds |->
        IF ss[s].st = "released"
           /\ \A c \in ConnIds : cn[c].st = "alive" => cn[c].session # s
           /\ \A o \in ObjIds : ob[o].st = "alive" => ob[o].session # s
        THEN NoSessRec
        ELSE ss[s]]

PduLive(p) == p # NoPdu /\ pdus[p].st = "live"

(* a released PDU that no object refers to any more is out of the script's *)
(* and the engine's reach: its slot is as good as unused                   *)
Sweep(pd, ob) ==
    [p \in PduIds |->
        IF pd[p].st = "freed"
           /\ \A o \in ObjIds : ob[o].st = "alive" => ob[o].pdu # p
        THEN NoPduRec
        ELSE pd[p]]

(* release of a PDU's memory (coap_delete_pdu): the content is gone *)
Released(pd) ==
    [pd EXCEPT !.st = "freed", !.type = 0, !.code = 0, !.tid = 0,
               !.data = <<>>, !.q = -1, !.token = <<>>, !.opts = <<>>]

(* ------------------------- outcome of one call ------------------------ *)
Out(pd, ob, cn, ss, err, val) ==
    [pdus |-> pd, objs |-> ob, conns |-> cn, sessions |-> ss,
     err |-> err, val |-> val, halt |-> FALSE]

Same(err, val) == Out(pdus, objs, conns, sessions, err, val)

WithPdus(pd, val) == Out(pd, objs, conns, sessions, "none", val)

(* undefined behaviour: the process crashes, or the call goes on with      *)
(* whatever the released memory holds                                      *)
GarbageVals == {LNil, LNum(0)}

Undefined ==
    {[Same("crash", LNil) EXCEPT !.halt = TRUE]}
        \cup {Same("none", v) : v \in GarbageVals}

(* luaL_checkinteger *)
IsInt(v) == v.t = "number"


(* lua_toboolean *)
ToBoolean(v) == ~(v.t \in {"none", "nil"} \/ (v.t = "boolean" /\ v.n = 0))

ObjAlive(o) == o # NoObj /\ objs[o].st = "alive"

(* ---------------------- message field get / set ----------------------- *)
l_coap_pdu_get_type(o, a) ==
    IF ~(ObjAlive(o) /\ PduLive(objs[o].pdu)) THEN Undefined
    ELSE {Same("none", LNum(pdus[objs[o].pdu].type % 4))}

l_coap_pdu_set_type(o, a) ==
    IF ~ObjAlive(o) THEN Undefined
    ELSE IF ~IsInt(Arg(a, 1)) THEN {Same("InvalidArgument", LNil)}
    ELSE IF ~PduLive(objs[o].pdu) THEN Undefined
    ELSE {WithPdus([pdus EXCEPT ![objs[o].pdu].type = Arg(a, 1).n % 4], LNone)}

l_coap_pdu_get_code(o, a) ==
    IF ~(ObjAlive(o) /\ PduLive(objs[o].pdu)) THEN Undefined
    ELSE {Same("none", LNum(CodeToLua(pdus[objs[o].pdu].code)))}

l_coap_pdu_set_code(o, a) ==
    IF ~ObjAlive(o) THEN Undefined
    ELSE IF ~IsInt(Arg(a, 1)) THEN {Same("InvalidArgument", LNil)}
    ELSE IF ~PduLive(objs[o].pdu) THEN Undefined
    ELSE {WithPdus([pdus EXCEPT
                       ![objs[o].pdu].code = COAP_RESPONSE_CODE(Arg(a, 1).n)],
                   LNone)}

l_coap_pdu_get_msg_id(o, a) ==
    IF ~(ObjAlive(o) /\ PduLive(objs[o].pdu)) THEN Undefined
    ELSE {Same("none", LNum(pdus[objs[o].pdu].tid))}

l_coap_pdu_set_msg_id(o, a) ==
    IF ~ObjAlive(o) THEN Undefined
    ELSE IF ~IsInt(Arg(a, 1)) THEN {Same("InvalidArgument", LNil)}
    ELSE IF ~PduLive(objs[o].pdu) THEN Undefined
    ELSE {WithPdus([pdus EXCEPT ![objs[o].pdu].tid = Arg(a, 1).n % 65536],
                   LNone)}

l_coap_pdu_get_payload(o, a) ==
    IF ~(ObjAlive(o) /\ PduLive(objs[o].pdu)) THEN Undefined
    ELSE LET data == pdus[objs[o].pdu].data
             as_arr == ToBoolean(Arg(a, 1))
         IN  IF Len(data) = 0 THEN {Same("none", LNil)}
             ELSE IF as_arr
                  THEN {Same("none",
                             LTab([i \in 1..Len(data) |-> ENum(data[i])]))}
                  ELSE {Same("none", LStr(data))}

(* --------------------------- payload setter --------------------------- *)
(* _set_payload on PDU p of the PDU table pd: a set of [err, pdus, halt].  *)
(* coap_add_data() with no byte does not touch the PDU; it must be called  *)
(* once per PDU only: a second payload either trips the engine's assert    *)
(* or takes the place of the first.                                        *)
coap_add_data(pd, p, data) ==
    IF Len(data) = 0 THEN {[err |-> "none", pdus |-> pd, halt |-> FALSE]}
    ELSE IF ~(p # NoPdu /\ pd[p].st = "live")
         THEN {[err |-> "crash", pdus |-> pd, halt |-> TRUE],
               [err |-> "none", pdus |-> pd, halt |-> FALSE]}
    ELSE IF Len(pd[p].data) = 0
         THEN {[err |-> "none", pdus |-> [pd EXCEPT ![p].data = data],
                halt |-> FALSE]}
    ELSE {[err |-> "crash", pdus |-> pd, halt |-> TRUE],
          [err |-> "none", pdus |-> [pd EXCEPT ![p].data = data],
           halt |-> FALSE]}

_set_payload(pd, p, arg) ==
    IF arg.t = "string" THEN coap_add_data(pd, p, arg.s)
    ELSE IF arg.t = "table"
         THEN IF \E i \in 1..Len(arg.e) : arg.e[i].t # "number"
              THEN {[err |-> "InvalidArgument", pdus |-> pd, halt |-> FALSE]}
              ELSE coap_add_data(pd, p,
                       [i \in 1..Len(arg.e) |-> arg.e[i].n % 256])
    ELSE IF arg.t # "none"
         THEN {[err |-> "InvalidArgument", pdus |-> pd, halt |-> FALSE]}
    ELSE coap_add_data(pd, p, <<>>)

(* ------------------- handler-scoped message methods ------------------- *)
(* get_connection as it would be with the connection object made owning *)
l_coap_pdu_get_connection_owning(o, a) ==
    IF ~ObjAlive(o) THEN Undefined
    ELSE LET c == Min(FreeConns)
         IN  {Out(pdus, objs,
                  [conns EXCEPT ![c] = [st |-> "alive",
                                        session |-> objs[o].session,
                                        gc |-> 1,
                                        by |-> "get_connection"]],
                  sessions, "none", LOther)}

l_coap_pdu_get_connection(o, a) ==
    IF ~ObjAlive(o) THEN Undefined
    ELSE LET c == Min(FreeConns)
         IN  {Out(pdus, objs,
                  [conns EXCEPT ![c] = [st |-> "alive",
                                        session |-> objs[o].session,
                                        gc |-> 0,
                                        by |-> "get_connection"]],
                  sessions, "none", LOther)}

(* the finalize send as it would be with the default code set whenever    *)
(* no code argument is passed                                              *)
l_coap_pdu_send_reqh_default_over_set(o, a) ==
    IF ~(ObjAlive(o) /\ PduLive(objs[o].pdu)) THEN Undefined
    ELSE
    LET p == objs[o].pdu
        hasCode == Arg(a, 1).t = "number"
        pd1 == IF hasCode
               THEN [pdus EXCEPT ![p].code = COAP_RESPONSE_CODE(Arg(a, 1).n)]
               ELSE pdus
        pd2 == IF ~hasCode \/ pd1[p].code = 0
               THEN [pd1 EXCEPT
                        ![p].code = COAP_RESPONSE_CODE(objs[o].def_code)]
               ELSE pd1
        parg == Arg(a, IF hasCode THEN 2 ELSE 1)
    IN  {IF r.halt
         THEN [Out(pd2, objs, conns, sessions, "crash", LNil)
                  EXCEPT !.halt = TRUE]
         ELSE IF r.err # "none"
         THEN Out(pd2, objs, conns, sessions, r.err, LNil)
         ELSE Out(r.pdus, [objs EXCEPT ![o].lck = 1], conns, sessions,
                  "none", LNone)
         : r \in _set_payload(pd2, p, parg)}

l_coap_pdu_send_reqh(o, a) ==
    IF ~(ObjAlive(o) /\ PduLive(objs[o].pdu)) THEN Undefined
    ELSE
    LET p == objs[o].pdu
        hasCode == Arg(a, 1).t = "number"
        pd1 == IF hasCode
               THEN [pdus EXCEPT ![p].code = COAP_RESPONSE_CODE(Arg(a, 1).n)]
               ELSE pdus
        pd2 == IF pd1[p].code = 0
               THEN [pd1 EXCEPT
                        ![p].code = COAP_RESPONSE_CODE(objs[o].def_code)]
               ELSE pd1
        parg == Arg(a, IF hasCode THEN 2 ELSE 1)
    IN  {IF r.halt
            THEN [Out(pd2, objs, conns, sessions, "crash", LNil)
                     EXCEPT !.halt = TRUE]
         ELSE IF r.err # "none"
            THEN Out(pd2, objs, conns, sessions, r.err, LNil)
         ELSE Out(r.pdus, [objs EXCEPT ![o].lck = 1], conns, sessions,
                  "none", LNone)
         : r \in _set_payload(pd2, p, parg)}

(* ------------------------------ options ------------------------------- *)
(* option numbers of the engine's headers *)
COAP_OPTION_IF_MATCH == 1
COAP_OPTION_URI_HOST == 3
COAP_OPTION_ETAG == 4
COAP_OPTION_IF_NONE_MATCH == 5
COAP_OPTION_OBSERVE == 6
COAP_OPTION_URI_PORT == 7
COAP_OPTION_LOCATION_PATH == 8
COAP_OPTION_URI_PATH == 11
COAP_OPTION_CONTENT_FORMAT == 12
COAP_OPTION_MAXAGE == 14
COAP_OPTION_URI_QUERY == 15
COAP_OPTION_ACCEPT == 17
COAP_OPTION_LOCATION_QUERY == 20
COAP_OPTION_BLOCK2 == 23
COAP_OPTION_BLOCK1 == 27
COAP_OPTION_SIZE2 == 28
COAP_OPTION_PROXY_URI == 35
COAP_OPTION_PROXY_SCHEME == 39
COAP_OPTION_SIZE1 == 60
COAP_OPTION_NORESPONSE == 258

(* coap_optval_type_t *)
OPTVAL_UNKNWN == 0
OPTVAL_UINT == 1
OPTVAL_STRING == 2
OPTVAL_OPAQUE == 3

_get_coap_optval_type(opt_type) ==
    IF opt_type \in {COAP_OPTION_IF_NONE_MATCH, COAP_OPTION_OBSERVE,
                     COAP_OPTION_URI_PORT, COAP_OPTION_CONTENT_FORMAT,
                     COAP_OPTION_MAXAGE, COAP_OPTION_ACCEPT,
                     COAP_OPTION_BLOCK2, COAP_OPTION_BLOCK1,
                     COAP_OPTION_SIZE2, COAP_OPTION_SIZE1,
                     COAP_OPTION_NORESPONSE}
    THEN OPTVAL_UINT
    ELSE IF opt_type \in {COAP_OPTION_URI_HOST, COAP_OPTION_LOCATION_PATH,
                          COAP_OPTION_URI_PATH, COAP_OPTION_URI_QUERY,
                          COAP_OPTION_LOCATION_QUERY, COAP_OPTION_PROXY_URI,
                          COAP_OPTION_PROXY_SCHEME}
    THEN OPTVAL_STRING
    ELSE IF opt_type \in {COAP_OPTION_IF_MATCH, COAP_OPTION_ETAG}
    THEN OPTVAL_OPAQUE
    ELSE OPTVAL_UNKNWN

(* big-endian base-256 digits without their leading zeroes *)
RECURSIVE StripZeroes(_)
StripZeroes(d) ==
    IF Len(d) > 0 /\ d[1] = 0 THEN StripZeroes(Tail(d)) ELSE d

(* the number with the big-endian base-256 digits d (below 2^31) *)
RECURSIVE DigitsValue(_)
DigitsValue(d) ==
    IF Len(d) = 0 THEN 0
    ELSE DigitsValue(SubSeq(d, 1, Len(d) - 1)) * 256 + d[Len(d)]

(* lua_pushinteger of the number with the big-endian digits d *)
LInt(d) ==
    LET s == StripZeroes(d)
    IN  IF Len(s) < 4 \/ (Len(s) = 4 /\ s[1] < 128)
        THEN LNum(DigitsValue(s))
        ELSE LBig(s)

(* (uint32_t)luaL_checkinteger(v) as val_b[0..3], network order:          *)
(* val_b[j] = (val_i >> (i << 3)) & 0xff for i = 3..0                      *)
U32Bytes(v) ==
    IF v.s = <<>>
    THEN [j \in 1..4 |-> (v.n \div (256 ^ (4 - j))) % 256]
    ELSE [j \in 1..4 |-> IF Len(v.s) - 4 + j >= 1
                         THEN v.s[Len(v.s) - 4 + j]
                         ELSE 0]

(* the cut of leading zero bytes as it would be without "opt_len > 1" *)
RECURSIVE CutLeadingZeroes_all(_)
CutLeadingZeroes_all(b) ==
    IF Len(b) > 0 /\ b[1] = 0 THEN CutLeadingZeroes_all(Tail(b)) ELSE b

(* for (; !*opt_val && opt_len > 1; opt_val++, opt_len--); *)
RECURSIVE CutLeadingZeroes(_)
CutLeadingZeroes(b) ==
    IF Len(b) > 1 /\ b[1] = 0 THEN CutLeadingZeroes(Tail(b)) ELSE b

(* uint32_t v: v = (v << 8) | opt_val[i] over the raw bytes; v is kept   *)
(* by its four bytes                                                       *)
RECURSIVE Acc32(_, _)
Acc32(v, bytes) ==
    IF Len(bytes) = 0 THEN v
    ELSE Acc32(<<v[2], v[3], v[4], Head(bytes)>>, Tail(bytes))

(* the element's byte as it would be with seven bits kept *)
ToByte_7bit(e) == e.n % 128

(* the byte a table element is stored as: (uint8_t)lua_tointeger() *)
ToByte(e) == e.n % 256

(* the push as it would be with unclassified options read as strings *)
_push_coap_opt_val_unknown_as_string(val, opt_type) ==
    IF Len(val) = 0 THEN LNil
    ELSE IF _get_coap_optval_type(opt_type) = OPTVAL_UINT
         THEN LInt(Acc32(<<0, 0, 0, 0>>, val))
    ELSE IF _get_coap_optval_type(opt_type) \in {OPTVAL_STRING, OPTVAL_UNKNWN}
         THEN LStr(val)
    ELSE LTab([i \in 1..Len(val) |-> ENum(val[i])])

(* the value _push_coap_opt_val pushes for raw bytes val of an option of   *)
(* type opt_type                                                           *)
_push_coap_opt_val(val, opt_type) ==
    IF Len(val) = 0 THEN LNil
    ELSE IF _get_coap_optval_type(opt_type) = OPTVAL_UINT
         THEN LInt(Acc32(<<0, 0, 0, 0>>, val))
    ELSE IF _get_coap_optval_type(opt_type) = OPTVAL_STRING
         THEN LStr(val)
    ELSE LTab([i \in 1..Len(val) |-> ENum(val[i])])

(* libcoap's bookkeeping of one PDU (a record of the PDU table):           *)
(* max_delta is the type of the option added last; used_size counts the   *)
(* token, the encoded options and the payload with its marker.             *)
max_delta(pdu) ==
    IF Len(pdu.opts) = 0 THEN 0 ELSE pdu.opts[Len(pdu.opts)].type

OptExt(x) == IF x < 13 THEN 0 ELSE IF x < 269 THEN 1 ELSE 2

coap_opt_encode_size(delta, len) == 1 + OptExt(delta) + OptExt(len) + len

RECURSIVE OptsSize(_, _)
OptsSize(opts, prev) ==
    IF Len(opts) = 0 THEN 0
    ELSE coap_opt_encode_size(
             IF Head(opts).type >= prev THEN Head(opts).type - prev ELSE 0,
             Len(Head(opts).val))
         + OptsSize(Tail(opts), Head(opts).type)

used_size(pdu) ==
    Len(pdu.token) + OptsSize(pdu.opts, 0)
        + (IF Len(pdu.data) > 0 THEN 1 + Len(pdu.data) ELSE 0)

(* the engine's add as it would be without the test of the order *)
coap_add_option_unordered(pdu, type, val) ==
    [ok |-> TRUE,
     pdu |-> [pdu EXCEPT
                !.opts = Append(@, [type |-> type % 65536, val |-> val])]]

(* coap_add_option(pdu, type, len, data) of the engine, type being a       *)
(* uint16_t: refused for a type below max_delta and for a PDU that would   *)
(* outgrow its maximal size; [ok, pdu]                                     *)
coap_add_option(pdu, type, val) ==
    LET t16 == type % 65536
    IN  IF t16 < max_delta(pdu)
           \/ used_size(pdu) + coap_opt_encode_size(t16 - max_delta(pdu),
                                                    Len(val))
                 > lib_ctx.max_pdu_sz
        THEN [ok |-> FALSE, pdu |-> pdu]
        ELSE [ok |-> TRUE,
              pdu |-> [pdu EXCEPT
                         !.opts = Append(@, [type |-> t16, val |-> val])]]

(* coap_add_token(pdu, len, data) of the engine: refused once anything    *)
(* (a token, an option, a payload) is in the PDU; [ok, pdu]                *)
coap_add_token(pdu, token) ==
    IF Len(token) > 8 \/ used_size(pdu) # 0
    THEN [ok |-> FALSE, pdu |-> pdu]
    ELSE [ok |-> TRUE, pdu |-> [pdu EXCEPT !.token = token]]

(* the first option of the PDU with type t, or 0 *)
FirstOpt(pdu, t) ==
    IF \E i \in 1..Len(pdu.opts) : pdu.opts[i].type = t
    THEN Min({i \in 1..Len(pdu.opts) : pdu.opts[i].type = t})
    ELSE 0

(* a failed call that had changed PDUs before it raised *)
Failed(pd, err) == Out(pd, objs, conns, sessions, err, LNil)

(* ------------------------------- token -------------------------------- *)
l_coap_pdu_get_token(o, a) ==
    IF ~(ObjAlive(o) /\ PduLive(objs[o].pdu)) THEN Undefined
    ELSE LET token == pdus[objs[o].pdu].token
             as_arr == ToBoolean(Arg(a, 1))
         IN  IF Len(token) = 0 THEN {Same("none", LNil)}
             ELSE IF as_arr
                  THEN {Same("none",
                             LTab([i \in 1..Len(token) |-> ENum(token[i])]))}
                  ELSE {Same("none", LStr(token))}

(* set_token as it would be without the test of the elements' type *)
l_coap_pdu_set_token_any_element(o, a) ==
    IF ~ObjAlive(o) THEN Undefined
    ELSE
    LET v == Arg(a, 1)
        p == objs[o].pdu
        add(token) ==
            IF ~PduLive(p) THEN Undefined
            ELSE IF coap_add_token(pdus[p], token).ok
                 THEN {WithPdus([pdus EXCEPT
                                    ![p] = coap_add_token(pdus[p], token).pdu],
                                LNone)}
                 ELSE {Same("TokenOrderViolation", LNil)}
    IN  IF v.t = "string"
        THEN IF Len(v.s) > 8 THEN {Same("InvalidToken", LNil)}
             ELSE add(v.s)
        ELSE IF v.t = "table"
        THEN IF Len(v.e) > 8 THEN {Same("InvalidToken", LNil)}
             ELSE add([i \in 1..Len(v.e) |-> ToByte(v.e[i])])
        ELSE IF v.t # "none" THEN {Same("InvalidToken", LNil)}
        ELSE add(<<>>)

(* "InvalidToken" stands for the three errors raised on the argument,      *)
(* "TokenOrderViolation" for "coap_add_token() failed; check order of      *)
(* adding the token"                                                       *)
l_coap_pdu_set_token(o, a) ==
    IF ~ObjAlive(o) THEN Undefined
    ELSE
    LET v == Arg(a, 1)
        p == objs[o].pdu
        add(token) ==
            IF ~PduLive(p) THEN Undefined
            ELSE IF coap_add_token(pdus[p], token).ok
                 THEN {WithPdus([pdus EXCEPT
                                    ![p] = coap_add_token(pdus[p], token).pdu],
                                LNone)}
                 ELSE {Same("TokenOrderViolation", LNil)}
    IN  IF v.t = "string"
        THEN IF Len(v.s) > 8 THEN {Same("InvalidToken", LNil)}
             ELSE add(v.s)
        ELSE IF v.t = "table"
        THEN IF Len(v.e) > 0 /\ Len(v.e) <= 8
                /\ \E i \in 1..Len(v.e) : v.e[i].t # "number"
             THEN {Same("InvalidToken", LNil)}
             ELSE IF Len(v.e) > 8 THEN {Same("InvalidToken", LNil)}
             ELSE add([i \in 1..Len(v.e) |-> ToByte(v.e[i])])
        ELSE IF v.t # "none" THEN {Same("InvalidToken", LNil)}
        ELSE add(<<>>)

(* --------------------------- get / set option ------------------------- *)
(* two values are returned: the value and whether the option exists; the   *)
(* filter takes the type as a uint16_t, the value is pushed by the type    *)
(* as the script gave it                                                   *)
ReadOption(pdu, opt_type) ==
    LET i == FirstOpt(pdu, opt_type % 65536)
    IN  IF i = 0 THEN [val |-> LNil, exist |-> LBool(FALSE)]
        ELSE [val |-> _push_coap_opt_val(pdu.opts[i].val, opt_type),
              exist |-> LBool(TRUE)]

l_coap_pdu_get_option(o, a) ==
    IF ~ObjAlive(o) THEN Undefined
    ELSE IF ~IsInt(Arg(a, 1)) THEN {Same("InvalidArgument", LNil)}
    ELSE IF ~PduLive(objs[o].pdu) THEN Undefined
    ELSE LET rd == ReadOption(pdus[objs[o].pdu], Arg(a, 1).n)
         IN  {Same("none", rd.val) @@ [exist |-> rd.exist]}

(* the decimal digits lua_tostring gives a number (below 2^31) *)
RECURSIVE Decimal(_)
Decimal(n) ==
    IF n < 0 THEN <<45>> \o Decimal(0 - n)
    ELSE IF n < 10 THEN <<48 + n>>
    ELSE Decimal(n \div 10) \o <<48 + (n % 10)>>

(* "OptionOrderViolation" stands for "coap_add_option() failed; check     *)
(* order of added options", "OptionTooLarge" for "array size larger than   *)
(* 255 bytes", "InvalidArgument" for the other errors                      *)
l_coap_pdu_set_option(o, a) ==
    IF ~ObjAlive(o) THEN Undefined
    ELSE IF ~IsInt(Arg(a, 1)) THEN {Same("InvalidArgument", LNil)}
    ELSE
    LET opt_type == Arg(a, 1).n
        v == Arg(a, 2)
        p == objs[o].pdu
        known == _get_coap_optval_type(opt_type)
        optval_type ==
            IF known # OPTVAL_UNKNWN THEN known
            ELSE IF v.t = "number" THEN OPTVAL_UINT
            ELSE IF v.t = "string" THEN OPTVAL_STRING
            ELSE IF v.t = "table" THEN OPTVAL_OPAQUE
            ELSE OPTVAL_UNKNWN
        add(val) ==
            IF ~PduLive(p) THEN Undefined
            ELSE IF coap_add_option(pdus[p], opt_type, val).ok
                 THEN {WithPdus(
                          [pdus EXCEPT
                              ![p] = coap_add_option(pdus[p], opt_type,
                                                     val).pdu],
                          LNone)}
                 ELSE {Same("OptionOrderViolation", LNil)}
    IN  IF v.t = "none" THEN add(<<>>)
        ELSE IF optval_type = OPTVAL_UNKNWN
             THEN {Same("InvalidArgument", LNil)}
        ELSE IF optval_type = OPTVAL_UINT
             THEN IF ~IsInt(v) THEN {Same("InvalidArgument", LNil)}
                  ELSE add(CutLeadingZeroes(U32Bytes(v)))
        ELSE IF optval_type = OPTVAL_STRING
             THEN IF v.t = "string" THEN add(v.s)
                  ELSE IF v.t = "number" /\ v.s = <<>> THEN add(Decimal(v.n))
                  ELSE {Same("InvalidArgument", LNil)}
        ELSE IF v.t # "table" THEN {Same("InvalidArgument", LNil)}
        ELSE IF Len(v.e) > 255 THEN {Same("OptionTooLarge", LNil)}
        ELSE IF \E i \in 1..Len(v.e) : v.e[i].t # "number"
             THEN {Same("InvalidArgument", LNil)}
        ELSE add([i \in 1..Len(v.e) |-> ToByte(v.e[i])])

(* ------------------------------ Uri-Path ------------------------------ *)
(* the Uri-Path options of a PDU, in order *)
UriPathOpts(pdu) ==
    SelectSeq(pdu.opts, LAMBDA x : x.type = COAP_OPTION_URI_PATH)

(* "/" .. segment for every option with a value *)
RECURSIVE JoinPath(_)
JoinPath(opts) ==
    IF Len(opts) = 0 THEN <<>>
    ELSE (IF Len(Head(opts).val) > 0 THEN <<47>> \o Head(opts).val ELSE <<>>)
         \o JoinPath(Tail(opts))

ENil == [t |-> "nil", n |-> 0, s |-> <<>>]

(* the value get_uri_path pushes: the array form stores the i-th Uri-Path  *)
(* option at index i and an option without value leaves a hole; nil for a  *)
(* PDU without options, without Uri-Path (array) or without text (string)  *)
ReadUriPath(pdu, as_arr) ==
    LET up == UriPathOpts(pdu)
    IN  IF Len(pdu.opts) = 0 THEN LNil
        ELSE IF as_arr
             THEN IF Len(up) = 0 THEN LNil
                  ELSE LTab([i \in 1..Len(up) |->
                                IF Len(up[i].val) > 0
                                THEN EStrOf(up[i].val)
                                ELSE ENil])
             ELSE IF Len(JoinPath(up)) = 0 THEN LNil
                  ELSE LStr(JoinPath(up))

l_coap_pdu_get_uri_path(o, a) ==
    IF ~(ObjAlive(o) /\ PduLive(objs[o].pdu)) THEN Undefined
    ELSE {Same("none", ReadUriPath(pdus[objs[o].pdu], ToBoolean(Arg(a, 1))))}

(* the loop over the string form as it would be without the branch for a   *)
(* segment that ends with the string                                       *)
RECURSIVE UriStrLoop_no_tail(_, _, _, _)
UriStrLoop_no_tail(pdu, uri, i, b) ==
    IF i >= Len(uri) THEN [err |-> "none", pdu |-> pdu]
    ELSE
    LET b1 == IF b < 0 /\ uri[i + 1] # 47 THEN i ELSE b
        r == coap_add_option(pdu, COAP_OPTION_URI_PATH,
                             SubSeq(uri, b1 + 1, i))
    IN  IF b1 < 0 \/ uri[i + 1] # 47
        THEN UriStrLoop_no_tail(pdu, uri, i + 1, b1)
        ELSE IF ~r.ok THEN [err |-> "OptionOrderViolation", pdu |-> pdu]
        ELSE UriStrLoop_no_tail(r.pdu, uri, i + 1, -1)

(* the loop over the string form: i is the index (from 0), b the start of  *)
(* the segment being read or -1; [err, pdu]                                *)
RECURSIVE UriStrLoop(_, _, _, _)
UriStrLoop(pdu, uri, i, b) ==
    IF i >= Len(uri) THEN [err |-> "none", pdu |-> pdu]
    ELSE
    LET b1 == IF b < 0 /\ uri[i + 1] # 47 THEN i ELSE b
        l == IF uri[i + 1] = 47 THEN i - b1 ELSE Len(uri) - b1
        r == coap_add_option(pdu, COAP_OPTION_URI_PATH,
                             SubSeq(uri, b1 + 1, b1 + l))
    IN  IF b1 < 0 THEN UriStrLoop(pdu, uri, i + 1, b1)
        ELSE IF uri[i + 1] # 47 /\ i + 1 < Len(uri)
             THEN UriStrLoop(pdu, uri, i + 1, b1)
        ELSE IF ~r.ok THEN [err |-> "OptionOrderViolation", pdu |-> pdu]
        ELSE UriStrLoop(r.pdu, uri, i + 1, -1)

(* the loop over the array form, from element i *)
RECURSIVE UriArrLoop(_, _, _)
UriArrLoop(pdu, e, i) ==
    IF i > Len(e) THEN [err |-> "none", pdu |-> pdu]
    ELSE IF e[i].t # "string" THEN [err |-> "InvalidArgument", pdu |-> pdu]
    ELSE IF ~coap_add_option(pdu, COAP_OPTION_URI_PATH, e[i].s).ok
         THEN [err |-> "OptionOrderViolation", pdu |-> pdu]
    ELSE UriArrLoop(coap_add_option(pdu, COAP_OPTION_URI_PATH, e[i].s).pdu,
                    e, i + 1)

(* the options added before an error was raised stay in the PDU *)
l_coap_pdu_set_uri_path(o, a) ==
    IF ~ObjAlive(o) THEN Undefined
    ELSE
    LET v == Arg(a, 1)
        p == objs[o].pdu
        done(r) ==
            IF r.err = "none"
            THEN {WithPdus([pdus EXCEPT ![p] = r.pdu], LNone)}
            ELSE {Failed([pdus EXCEPT ![p] = r.pdu], r.err)}
    IN  IF v.t = "string"
        THEN IF Len(v.s) = 0 THEN {Same("none", LNone)}
             ELSE IF ~PduLive(p) THEN Undefined
             ELSE done(UriStrLoop(pdus[p], v.s, 0, -1))
        ELSE IF v.t = "table"
        THEN IF Len(v.e) = 0 THEN {Same("none", LNone)}
             ELSE IF v.e[1].t # "string"
                  THEN {Same("InvalidArgument", LNil)}
             ELSE IF ~PduLive(p) THEN Undefined
             ELSE done(UriArrLoop(pdus[p], v.e, 1))
        ELSE {Same("InvalidArgument", LNil)}

(* ----------------------------- Uri-Query ------------------------------ *)
MAX_QSTR_PARAMS_ARGS == 10

(* isspace() in the "C" locale *)
isspace(c) == c \in {9, 10, 11, 12, 13, 32}

(* strtrim(s, &len) on the len bytes at s: the loop goes on while s < e,   *)
(* so the last byte left is never tested                                   *)
RECURSIVE strtrim(_)
strtrim(s) ==
    IF Len(s) <= 1 THEN s
    ELSE IF isspace(s[1]) THEN strtrim(Tail(s))
    ELSE IF isspace(s[Len(s)]) THEN strtrim(SubSeq(s, 1, Len(s) - 1))
    ELSE s

(* the Uri-Query options of a PDU, in order *)
UriQueryOpts(pdu) ==
    SelectSeq(pdu.opts, LAMBDA x : x.type = COAP_OPTION_URI_QUERY)

(* the parsing part of _parse_next_coap_qstr_param, on the value of the    *)
(* option coap_option_next() returned: [name, val], a length of 0 standing *)
(* for name_len = 0 and val_len = 0                                        *)
_parse_next_coap_qstr_param(qstr) ==
    LET eq == {k \in 1..Len(qstr) : qstr[k] = 61}
        name_len == IF eq = {} THEN Len(qstr) ELSE Min(eq) - 1
        name == SubSeq(qstr, 1, name_len)
        val == SubSeq(qstr, name_len + 2, Len(qstr))
    IN  [name |-> IF Len(name) > 0 THEN strtrim(name) ELSE <<>>,
         val |-> IF Len(val) > 0 THEN strtrim(val) ELSE <<>>]

(* luaL_checkstring: a string, or a number which is converted *)
IsStr(v) == v.t \in {"string", "number"}

ToStr(v) == IF v.t = "number" THEN Decimal(v.n) ELSE v.s

(* the scan as it would be if it kept the last match instead of the first *)
RECURSIVE QstrScan_last(_, _, _)
QstrScan_last(qs, k, qstr_param) ==
    IF k > Len(qs) THEN [val |-> LNil, exist |-> FALSE]
    ELSE LET p == _parse_next_coap_qstr_param(qs[k].val)
             rest == QstrScan_last(qs, k + 1, qstr_param)
         IN  IF Len(p.name) = 0 \/ p.name # qstr_param \/ rest.exist
             THEN rest
             ELSE [val |-> IF Len(p.val) > 0 THEN LStr(p.val) ELSE LNil,
                   exist |-> TRUE]

(* the scan of l_coap_pdu_get_qstr_param from the k-th Uri-Query option:   *)
(* [val, exist]                                                            *)
RECURSIVE QstrScan(_, _, _)
QstrScan(qs, k, qstr_param) ==
    IF k > Len(qs) THEN [val |-> LNil, exist |-> FALSE]
    ELSE LET p == _parse_next_coap_qstr_param(qs[k].val)
         IN  IF Len(p.name) = 0 THEN QstrScan(qs, k + 1, qstr_param)
             ELSE IF p.name # qstr_param
                  THEN QstrScan(qs, k + 1, qstr_param)
             ELSE [val |-> IF Len(p.val) > 0 THEN LStr(p.val) ELSE LNil,
                   exist |-> TRUE]

l_coap_pdu_get_qstr_param(o, a) ==
    IF ~ObjAlive(o) THEN Undefined
    ELSE IF ~IsStr(Arg(a, 1))
         THEN {Same("InvalidArgument", LNil) @@ [exist |-> FALSE]}
    ELSE IF ~PduLive(objs[o].pdu)
         THEN {r @@ [exist |-> FALSE] : r \in Undefined}
    ELSE LET rd == QstrScan(UriQueryOpts(pdus[objs[o].pdu]), 1,
                            ToStr(Arg(a, 1)))
         IN  {Same("none", rd.val) @@ [exist |-> rd.exist]}

(* ----------------------------- iterators ------------------------------ *)
FreeIters == {i \in IterIds : iters[i].st = "none"}

(* coap_option_iterator_init(pdu, oi, filter) of the engine: the iterator  *)
(* points behind the token and records what is left up to the end of the   *)
(* PDU, the options and the payload with its marker; bad for a PDU that    *)
(* holds neither                                                           *)
coap_option_iterator_init(p, kind, filtered, filter) ==
    LET length == Len(pdus[p].opts)
                    + (IF Len(pdus[p].data) > 0 THEN 1 ELSE 0)
    IN  [NoIterRec EXCEPT !.st = "live", !.kind = kind, !.pdu = p,
                          !.next = 1, !.length = length,
                          !.bad = (length = 0), !.filtered = filtered,
                          !.filter = filter]

(* whether coap_option_next() reads the PDU's memory: it returns before    *)
(* for an iterator that is bad or has nothing left                         *)
ReadsPdu(it) == ~it.bad /\ it.length # 0

(* coap_option_next() as it would be if it did not record the end: the     *)
(* iterator starts over                                                    *)
coap_option_next_restarting(it) ==
    LET opts == pdus[it.pdu].opts
        end == it.next + it.length - 1
        stop == IF end < Len(opts) THEN end ELSE Len(opts)
        cand == {k \in it.next..stop :
                    ~it.filtered \/ opts[k].type \in it.filter}
    IN  IF cand = {}
        THEN [opt |-> 0,
              it |-> [it EXCEPT !.next = 1, !.length = end]]
        ELSE [opt |-> Min(cand),
              it |-> [it EXCEPT !.next = Min(cand) + 1,
                                !.length = end - Min(cand)]]

(* coap_option_next(oi) of the engine on a PDU that is live: the index of  *)
(* the next option the filter lets pass, or 0, and the iterator after it;  *)
(* every return of 0 leaves the iterator bad                               *)
coap_option_next(it) ==
    LET opts == pdus[it.pdu].opts
        end == it.next + it.length - 1
        stop == IF end < Len(opts) THEN end ELSE Len(opts)
        cand == {k \in it.next..stop :
                    ~it.filtered \/ opts[k].type \in it.filter}
    IN  IF ~ReadsPdu(it) THEN [opt |-> 0, it |-> [it EXCEPT !.bad = TRUE]]
        ELSE IF cand = {}
             THEN [opt |-> 0,
                   it |-> [it EXCEPT !.bad = TRUE, !.next = stop + 1,
                                     !.length = end - stop]]
        ELSE [opt |-> Min(cand),
              it |-> [it EXCEPT !.next = Min(cand) + 1,
                                !.length = end - Min(cand)]]

(* the outcome of one step of an iteration function: the two values it     *)
(* returns (val2 none for the single nil), the iteration state after it    *)
(* and the registry after it                                               *)
Stepped(err, val, val2, it, reg) ==
    [err |-> err, val |-> val, val2 |-> val2, it |-> it, reg |-> reg,
     halt |-> FALSE]

(* _free_coap_qstr_param_iter_state as it would be without n_refs = 0 *)
_free_coap_qstr_param_iter_state_keeping_n_refs(it, reg) ==
    [it |-> [it EXCEPT !.nunref = @ + it.n_refs],
     reg |-> reg \ {it.refs[k] : k \in 1..it.n_refs}]

(* _free_coap_qstr_param_iter_state: [it, reg] *)
_free_coap_qstr_param_iter_state(it, reg) ==
    [it |-> [it EXCEPT !.n_refs = 0, !.nunref = @ + it.n_refs],
     reg |-> reg \ {it.refs[k] : k \in 1..it.n_refs}]

(* "iteration finished": the single nil *)
Finished(it, reg) == Stepped("none", LNil, LNone, it, reg)

(* a step that reads a PDU that was released: the process crashes, or the  *)
(* engine parses what the memory holds now, which yields some element or   *)
(* ends the iteration (the engine then leaves the iterator bad)            *)
UndefinedStep(it, fin) ==
    {[Stepped("crash", LNil, LNone, it, registry) EXCEPT !.halt = TRUE],
     Stepped("none", LNum(0), LNil, it, registry),
     fin}

(* the body of _coap_option_iter, for an iteration state it *)
OptionIterFrom(it) ==
    LET nx == coap_option_next(it)
        opt == pdus[it.pdu].opts[nx.opt]
    IN  IF ~ReadsPdu(it)
        THEN {Finished([it EXCEPT !.bad = TRUE], registry)}
        ELSE IF ~PduLive(it.pdu)
        THEN UndefinedStep(it, Finished([it EXCEPT !.bad = TRUE], registry))
        ELSE IF nx.opt = 0 THEN {Finished(nx.it, registry)}
        ELSE {Stepped("none", LNum(opt.type),
                      _push_coap_opt_val(opt.val, opt.type), nx.it,
                      registry)}

(* _coap_option_iter on iteration state i *)
_coap_option_iter(i) == OptionIterFrom(iters[i])

(* the loop of _coap_qstr_param_iter (next_iter:) on a live PDU, from      *)
(* iterator it                                                             *)
RECURSIVE QstrIterLoop(_)
QstrIterLoop(it) ==
    LET nx == coap_option_next(it)
        p == _parse_next_coap_qstr_param(pdus[it.pdu].opts[nx.opt].val)
        found == \/ it.n_refs = 0
                 \/ \E k \in 1..it.n_refs : it.names[k] = p.name
        freed == _free_coap_qstr_param_iter_state(nx.it, registry)
    IN  IF nx.opt = 0 THEN Finished(freed.it, freed.reg)
        ELSE IF Len(p.name) = 0 THEN QstrIterLoop(nx.it)
        ELSE IF ~found THEN QstrIterLoop(nx.it)
        ELSE Stepped("none", LStr(p.name),
                     IF Len(p.val) > 0 THEN LStr(p.val) ELSE LNil, nx.it,
                     registry)

(* _coap_qstr_param_iter on iteration state i *)
_coap_qstr_param_iter(i) ==
    LET it == iters[i]
        freed == _free_coap_qstr_param_iter_state([it EXCEPT !.bad = TRUE],
                                                  registry)
    IN  IF ~ReadsPdu(it) THEN {Finished(freed.it, freed.reg)}
        ELSE IF ~PduLive(it.pdu)
        THEN UndefinedStep(it, Finished(freed.it, freed.reg))
        ELSE {QstrIterLoop(it)}

(* a library call that made an iteration state: the function, the state    *)
(* (a userdata) and nil are returned                                       *)
WithIter(it, reg) ==
    Same("none", LOther)
        @@ [iters |-> [iters EXCEPT ![Min(FreeIters)] = it], reg |-> reg]

(* coap_option_filter_set(filter, type) of the engine: the filter has     *)
(* room for COAP_OPT_FILTER_SHORT types below 256 and for                  *)
(* COAP_OPT_FILTER_LONG types from 256 on; a type there is no room for is  *)
(* not set (the function returns 0)                                        *)
COAP_OPT_FILTER_SHORT == 6
COAP_OPT_FILTER_LONG == 2

coap_option_filter_set(filter, type) ==
    LET short == {t \in filter : t < 256}
    IN  IF type \in filter THEN filter
        ELSE IF type < 256
             THEN IF Cardinality(short) < COAP_OPT_FILTER_SHORT
                  THEN filter \cup {type} ELSE filter
        ELSE IF Cardinality(filter \ short) < COAP_OPT_FILTER_LONG
             THEN filter \cup {type} ELSE filter

(* the filter after the loop of l_coap_pdu_options over arguments k..: it  *)
(* passes each as uint16_t and does not look at what the set returns       *)
RECURSIVE OptionsFilter(_, _, _)
OptionsFilter(a, k, filter) ==
    IF k > Len(a) THEN filter
    ELSE OptionsFilter(a, k + 1,
                       coap_option_filter_set(filter, a[k].n % 65536))

(* options(opt_type, ...) *)
l_coap_pdu_options(o, a) ==
    IF ~ObjAlive(o) THEN Undefined
    ELSE IF \E k \in 1..Len(a) : ~IsInt(a[k])
         THEN {Same("InvalidArgument", LNil)}
    ELSE IF ~PduLive(objs[o].pdu) THEN Undefined
    ELSE {WithIter(coap_option_iterator_init(
                       objs[o].pdu, "options", Len(a) # 0,
                       OptionsFilter(a, 1, {})),
                   registry)}

(* the n references luaL_ref gives in a row *)
NewRefs(n) ==
    {r \in RefIds \ registry :
        Cardinality({x \in RefIds \ registry : x <= r}) <= n}

(* the k-th of a set of numbers *)
Nth(S, k) == CHOOSE x \in S : Cardinality({y \in S : y <= x}) = k

(* qstr_params as it would be with n_args >= MAX_QSTR_PARAMS_ARGS refused *)
l_coap_pdu_qstr_params_refusing_10(o, a) ==
    IF ~ObjAlive(o) THEN Undefined
    ELSE IF Len(a) >= MAX_QSTR_PARAMS_ARGS
         THEN {Same("TooManyFilterArgs", LNil)}
    ELSE IF \E k \in 1..Len(a) : ~IsStr(a[k])
         THEN {Same("InvalidArgument", LNil)}
    ELSE IF ~PduLive(objs[o].pdu) THEN Undefined
    ELSE {WithIter([coap_option_iterator_init(
                        objs[o].pdu, "qstr", TRUE, {COAP_OPTION_URI_QUERY})
                      EXCEPT !.refs = [k \in 1..Len(a) |->
                                          Nth(NewRefs(Len(a)), k)],
                             !.n_refs = Len(a),
                             !.names = [k \in 1..Len(a) |-> ToStr(a[k])]],
                   registry \cup NewRefs(Len(a)))}

(* qstr_params(name, ...): "TooManyFilterArgs" stands for "Number of       *)
(* arguments exceeded 10"                                                  *)
l_coap_pdu_qstr_params(o, a) ==
    IF ~ObjAlive(o) THEN Undefined
    ELSE IF Len(a) > MAX_QSTR_PARAMS_ARGS
         THEN {Same("TooManyFilterArgs", LNil)}
    ELSE IF \E k \in 1..Len(a) : ~IsStr(a[k])
         THEN {Same("InvalidArgument", LNil)}
    ELSE IF ~PduLive(objs[o].pdu) THEN Undefined
    ELSE {WithIter([coap_option_iterator_init(
                        objs[o].pdu, "qstr", TRUE, {COAP_OPTION_URI_QUERY})
                      EXCEPT !.refs = [k \in 1..Len(a) |->
                                          Nth(NewRefs(Len(a)), k)],
                             !.n_refs = Len(a),
                             !.names = [k \in 1..Len(a) |-> ToStr(a[k])]],
                   registry \cup NewRefs(Len(a)))}

(* ----------------------- PDU object dispatcher ------------------------ *)
(* the base read table as it would be with get_connection listed in it *)
r_funcs_with_get_connection ==
    {"get_type", "get_code", "get_msg_id", "get_token", "options",
     "get_option", "get_uri_path", "qstr_params", "get_qstr_param",
     "get_payload", "get_connection"}

r_funcs ==
    {"get_type", "get_code", "get_msg_id", "get_token", "options",
     "get_option", "get_uri_path", "qstr_params", "get_qstr_param",
     "get_payload"}

w_funcs ==
    {"set_type", "set_code", "set_msg_id", "set_token", "set_option",
     "set_uri_path"}

r_cmnh_funcs == {"get_connection"}

w_reqh_funcs == {"send"}

null_funcs == {}

(* _get_func: whether the table holds the name *)
_get_func(fname, funcs) == fname \in funcs

(* the dispatcher as it would be without the test of access.ro *)
_pdu_obj_dispacher_no_ro(o, fname) ==
    IF objs[o].lck = 1 THEN "ObjectLocked"
    ELSE IF _get_func(fname, r_funcs) THEN "none"
    ELSE IF objs[o].hndlr \in {ACS_REQ_HNDLR, ACS_RESP_HNDLR, ACS_NACK_HNDLR}
            /\ _get_func(fname, r_cmnh_funcs) THEN "none"
    ELSE IF _get_func(fname, w_funcs) THEN "none"
    ELSE IF objs[o].hndlr = ACS_REQ_HNDLR /\ _get_func(fname, w_reqh_funcs)
         THEN "none"
    ELSE "InvalidMethod"

(* the dispatcher's verdict on obj[fname]: "ObjectLocked" (the object is   *)
(* locked), "InvalidMethod" (no method found: "Invalid method %s of object *)
(* %s") or "none" (the method, bound to the object, is returned)           *)
_pdu_obj_dispacher(o, fname) ==
    IF objs[o].lck = 1 THEN "ObjectLocked"
    ELSE IF _get_func(fname, r_funcs) THEN "none"
    ELSE IF objs[o].hndlr \in {ACS_REQ_HNDLR, ACS_RESP_HNDLR, ACS_NACK_HNDLR}
            /\ _get_func(fname, r_cmnh_funcs) THEN "none"
    ELSE IF objs[o].ro = 1 THEN "InvalidMethod"
    ELSE IF _get_func(fname, w_funcs) THEN "none"
    ELSE IF objs[o].hndlr = ACS_REQ_HNDLR /\ _get_func(fname, w_reqh_funcs)
         THEN "none"
    ELSE IF objs[o].hndlr \in {ACS_RESP_HNDLR, ACS_NACK_HNDLR}
            /\ _get_func(fname, null_funcs) THEN "none"
    ELSE "InvalidMethod"

(* the C function a method name is bound to, run on object o *)
Invoke(fn, o, a) ==
    CASE fn = "get_type" -> l_coap_pdu_get_type(o, a)
      [] fn = "set_type" -> l_coap_pdu_set_type(o, a)
      [] fn = "get_code" -> l_coap_pdu_get_code(o, a)
      [] fn = "set_code" -> l_coap_pdu_set_code(o, a)
      [] fn = "get_msg_id" -> l_coap_pdu_get_msg_id(o, a)
      [] fn = "set_msg_id" -> l_coap_pdu_set_msg_id(o, a)
      [] fn = "get_payload" -> l_coap_pdu_get_payload(o, a)
      [] fn = "get_token" -> l_coap_pdu_get_token(o, a)
      [] fn = "set_token" -> l_coap_pdu_set_token(o, a)
      [] fn = "get_option" -> l_coap_pdu_get_option(o, a)
      [] fn = "set_option" -> l_coap_pdu_set_option(o, a)
      [] fn = "get_uri_path" -> l_coap_pdu_get_uri_path(o, a)
      [] fn = "set_uri_path" -> l_coap_pdu_set_uri_path(o, a)
      [] fn = "get_qstr_param" -> l_coap_pdu_get_qstr_param(o, a)
      [] fn = "options" -> l_coap_pdu_options(o, a)
      [] fn = "qstr_params" -> l_coap_pdu_qstr_params(o, a)
      [] fn = "get_connection" -> l_coap_pdu_get_connection(o, a)
      [] fn = "send" -> l_coap_pdu_send_reqh(o, a)


(* -------------------------- connection object ------------------------- *)
(* coap_send(session, pdu) of the engine, on PDU table pd: the engine      *)
(* takes the PDU over; it keeps a Confirmable message queued on the        *)
(* session for retransmission, or releases it at once (any other type, or  *)
(* a failed send).  Handing it a PDU that is released or that it owns      *)
(* already, or a released session, is undefined: the process crashes, or   *)
(* the engine goes on and the PDU ends up released.  A set of [pdus,       *)
(* halt, tid], tid the message id it returns, COAP_INVALID_TID for a send  *)
(* that failed.                                                            *)
coap_send(pd, s, p) ==
    LET cnt == [pd EXCEPT ![p].nsend = @ + 1, ![p].own = "engine"]
        gone == [cnt EXCEPT ![p] = Released(@)]
    IN  IF pd[p].st # "live" \/ pd[p].own # "script"
           \/ sessions[s].st # "open"
        THEN {[pdus |-> cnt, halt |-> TRUE, tid |-> COAP_INVALID_TID],
              [pdus |-> gone, halt |-> FALSE, tid |-> COAP_INVALID_TID]}
        ELSE {[pdus |-> gone, halt |-> FALSE, tid |-> COAP_INVALID_TID],
              [pdus |-> IF pd[p].type % 4 = COAP_MESSAGE_CON
                        THEN [cnt EXCEPT ![p].q = s]
                        ELSE gone,
               halt |-> FALSE, tid |-> pd[p].tid]}

(* conn.send as it would be with the lock taken back when the payload is   *)
(* refused                                                                 *)
l_coap_conn_send_unlocking(c, m, parg) ==
    IF m = NoObj THEN {Same("InvalidArgument", LNil)}
    ELSE IF objs[m].hndlr # ACS_NO_HNDLR THEN {Same("WrongSendPath", LNil)}
    ELSE
    LET p == objs[m].pdu
        sent(pd) ==
            {IF r.halt
                THEN [Out(r.pdus, objs, conns, sessions, "crash", LNil)
                         EXCEPT !.halt = TRUE]
                ELSE Out(r.pdus, [objs EXCEPT ![m].lck = 1], conns, sessions,
                         "none", LNone)
             : r \in coap_send(pd, conns[c].session, p)}
    IN  UNION {IF r.halt
                  THEN {[Out(r.pdus, objs, conns, sessions, "crash", LNil)
                            EXCEPT !.halt = TRUE]}
               ELSE IF r.err # "none"
                  THEN {Out(r.pdus, [objs EXCEPT ![m].lck = 0], conns,
                            sessions, r.err, LNil)}
               ELSE sent(r.pdus)
               : r \in _set_payload(pdus, p, parg)}

(* conn.send as it would be with the payload attached before the test of   *)
(* access.hndlr                                                            *)
l_coap_conn_send_late_check(c, m, parg) ==
    IF m = NoObj THEN {Same("InvalidArgument", LNil)}
    ELSE
    LET p == objs[m].pdu
    IN  UNION {IF r.halt
                  THEN {[Out(r.pdus, objs, conns, sessions, "crash", LNil)
                            EXCEPT !.halt = TRUE]}
               ELSE IF r.err # "none"
                  THEN {Out(r.pdus, objs, conns, sessions, r.err, LNil)}
               ELSE IF objs[m].hndlr # ACS_NO_HNDLR
                  THEN {Out(r.pdus, objs, conns, sessions, "WrongSendPath",
                            LNil)}
               ELSE {IF q.halt
                        THEN [Out(q.pdus, objs, conns, sessions, "crash",
                                  LNil) EXCEPT !.halt = TRUE]
                        ELSE Out(q.pdus, [objs EXCEPT ![m].lck = 1], conns,
                                 sessions, "none", LNone)
                     : q \in coap_send(r.pdus, conns[c].session, p)}
               : r \in _set_payload(pdus, p, parg)}

(* conn.send as it would be with a failed coap_send() raised as an error   *)
(* before the lock is taken                                                *)
l_coap_conn_send_raising(c, m, parg) ==
    IF m = NoObj THEN {Same("InvalidArgument", LNil)}
    ELSE IF objs[m].hndlr # ACS_NO_HNDLR THEN {Same("WrongSendPath", LNil)}
    ELSE
    LET p == objs[m].pdu
        sent(pd) ==
            {IF r.halt
                THEN [Out(r.pdus, objs, conns, sessions, "crash", LNil)
                         EXCEPT !.halt = TRUE]
                ELSE IF r.tid = COAP_INVALID_TID
                THEN Out(r.pdus, objs, conns, sessions, "EngineFailure",
                         LNil) @@ [tid |-> r.tid]
                ELSE Out(r.pdus, [objs EXCEPT ![m].lck = 1], conns, sessions,
                         "none", LNone) @@ [tid |-> r.tid]
             : r \in coap_send(pd, conns[c].session, p)}
    IN  UNION {IF r.halt
                  THEN {[Out(r.pdus, objs, conns, sessions, "crash", LNil)
                            EXCEPT !.halt = TRUE]}
               ELSE IF r.err # "none"
                  THEN {Out(r.pdus, objs, conns, sessions, r.err, LNil)}
               ELSE sent(r.pdus)
               : r \in _set_payload(pdus, p, parg)}

(* conn.send(msg, payload); m = NoObj stands for an argument that is not   *)
(* a PDU object (luaL_checkudata raises).  tid: what coap_send() returned, *)
(* which the function only logs                                            *)
l_coap_conn_send(c, m, parg) ==
    IF m = NoObj THEN {Same("InvalidArgument", LNil)}
    ELSE IF objs[m].hndlr # ACS_NO_HNDLR THEN {Same("WrongSendPath", LNil)}
    ELSE
    LET p == objs[m].pdu
        sent(pd) ==
            {IF r.halt
                THEN [Out(r.pdus, objs, conns, sessions, "crash", LNil)
                         EXCEPT !.halt = TRUE]
                ELSE Out(r.pdus, [objs EXCEPT ![m].lck = 1], conns, sessions,
                         "none", LNone) @@ [tid |-> r.tid]
             : r \in coap_send(pd, conns[c].session, p)}
    IN  UNION {IF r.halt
                  THEN {[Out(r.pdus, objs, conns, sessions, "crash", LNil)
                            EXCEPT !.halt = TRUE]}
               ELSE IF r.err # "none"
                  THEN {Out(r.pdus, objs, conns, sessions, r.err, LNil)}
               ELSE sent(r.pdus)
               : r \in _set_payload(pdus, p, parg)}

(* ------------------------ library constructors ------------------------ *)
(* coap_pdu_init() *)
coap_pdu_init(type, code, tid) ==
    [NoPduRec EXCEPT !.st = "live", !.type = type % 256, !.code = code,
                     !.tid = tid % 65536]

(* new_msg(type, code, msg_id); pduOk: coap_pdu_init() returned a PDU *)
l_coap_new_msg(a, pduOk) ==
    IF ~(IsInt(Arg(a, 1)) /\ IsInt(Arg(a, 2)) /\ IsInt(Arg(a, 3)))
    THEN {Same("InvalidArgument", LNil)}
    ELSE IF ~pduOk THEN {Same("EngineFailure", LNil)}
    ELSE LET p == Min(FreePdus)
             o == Min(FreeObjs)
         IN  {Out([pdus EXCEPT ![p] =
                      coap_pdu_init(Arg(a, 1).n,
                                    COAP_RESPONSE_CODE(Arg(a, 2).n),
                                    Arg(a, 3).n)],
                  [objs EXCEPT ![o] =
                      [NoObjRec EXCEPT !.st = "alive", !.pdu = p,
                                       !.hndlr = ACS_NO_HNDLR]],
                  conns, sessions, "none", LOther)}

(* _get_coap_addr: NULL for a port out of 0..65535 or a host that does     *)
(* not resolve                                                             *)
_get_coap_addr(resolves, port) == ~(port < 0 \/ port > 65535) /\ resolves

(* new_connection(addr, port); sessOk: coap_new_client_session() returned  *)
(* a session                                                               *)
l_coap_new_connection(port, resolves, sessOk) ==
    IF port < 0 \/ port >= 65535 THEN {Same("InvalidArgument", LNil)}
    ELSE IF ~_get_coap_addr(resolves, port)
         THEN {Same("InvalidArgument", LNil)}
    ELSE IF ~sessOk THEN {Same("EngineFailure", LNil)}
    ELSE LET s == Min(FreeSess)
             c == Min(FreeConns)
         IN  {Out(pdus, objs,
                  [conns EXCEPT ![c] =
                      [st |-> "alive", session |-> s, gc |-> 1,
                       by |-> "new_connection"]],
                  [sessions EXCEPT ![s] = [NoSessRec EXCEPT !.st = "open"]],
                  "none", LOther)}

(* ------------------------ connection parameters ---------------------- *)
(* assert(cond) of <assert.h> when cond is false: abort() in a build       *)
(* without NDEBUG, nothing at all in a build with it; go_on is the         *)
(* outcome of the statements that follow                                   *)
AssertFailed(go_on) == {[Same("crash", LNil) EXCEPT !.halt = TRUE], go_on}

(* a call on a connection object whose session was released reads and      *)
(* writes released memory                                                  *)
SessOpen(c) == sessions[conns[c].session].st = "open"

(* get_max_retransmit() *)
l_coap_conn_get_max_retransmit(c) ==
    IF ~SessOpen(c) THEN Undefined
    ELSE {Same("none", LInt(sessions[conns[c].session].max_retransmit))}

(* set_max_retransmit(max_retransmit): the Lua integer is converted to     *)
(* unsigned before the test                                                *)
l_coap_conn_set_max_retransmit(c, a) ==
    IF ~IsInt(Arg(a, 1)) THEN {Same("InvalidArgument", LNil)}
    ELSE IF ~SessOpen(c) THEN Undefined
    ELSE
    LET max_retransmit == U32Bytes(Arg(a, 1))
        stored == Out(pdus, objs, conns,
                      [sessions EXCEPT ![conns[c].session].max_retransmit =
                                           max_retransmit],
                      "none", LNone)
    IN  IF max_retransmit = <<0, 0, 0, 0>>
        THEN AssertFailed(stored)
        ELSE {stored}

(* timeout / 1000 and timeout % 1000 of an unsigned given by its bytes:    *)
(* [q, r], q the quotient by its bytes                                     *)
RECURSIVE DivMod1000(_, _, _)
DivMod1000(b, q, r) ==
    IF b = <<>> THEN [q |-> q, r |-> r]
    ELSE DivMod1000(Tail(b), Append(q, (r * 256 + Head(b)) \div 1000),
                    (r * 256 + Head(b)) % 1000)

(* the coap_fixed_point_t set_ack_timeout builds: the quotient is cut to   *)
(* the uint16_t integer_part                                               *)
timeout_fp(timeout) ==
    LET d == DivMod1000(timeout, <<>>, 0)
    IN  [integer_part |-> d.q[3] * 256 + d.q[4], fractional_part |-> d.r]

(* the milliseconds get_ack_timeout computes from the two fields *)
ack_timeout_ms(t) == 1000 * t.integer_part + t.fractional_part

(* get_ack_timeout() *)
l_coap_conn_get_ack_timeout(c) ==
    IF ~SessOpen(c) THEN Undefined
    ELSE LET t == sessions[conns[c].session].ack_timeout
         IN  {Same("none", LNum(ack_timeout_ms(t)))}

(* set_ack_timeout(timeout) *)
l_coap_conn_set_ack_timeout(c, a) ==
    IF ~IsInt(Arg(a, 1)) THEN {Same("InvalidArgument", LNil)}
    ELSE IF ~SessOpen(c) THEN Undefined
    ELSE
    LET timeout == U32Bytes(Arg(a, 1))
        stored == Out(pdus, objs, conns,
                      [sessions EXCEPT ![conns[c].session].ack_timeout =
                                           timeout_fp(timeout)],
                      "none", LNone)
    IN  IF timeout = <<0, 0, 0, 0>>
        THEN AssertFailed(stored)
        ELSE {stored}

(* ---------------------------- destructors ----------------------------- *)
(* __gc as it would be without the test of access.lck *)
_pdu_obj_gc_no_lck(o) ==
    IF objs[o].hndlr = ACS_NO_HNDLR
    THEN [pdus EXCEPT ![objs[o].pdu] = [Released(@) EXCEPT !.ndel = @ + 1]]
    ELSE pdus

(* the PDU table after the PDU object's __gc *)
_pdu_obj_gc(o) ==
    IF objs[o].hndlr = ACS_NO_HNDLR /\ objs[o].lck = 0
    THEN [pdus EXCEPT ![objs[o].pdu] = [Released(@) EXCEPT !.ndel = @ + 1]]
    ELSE pdus

(* the session table after the connection object's __gc *)
_conn_obj_gc(c) ==
    IF conns[c].gc # 0
    THEN [sessions EXCEPT ![conns[c].session] =
             [@ EXCEPT !.st = "released", !.nrel = @ + 1]]
    ELSE sessions


(* ------------------------ handler registration ------------------------ *)
(* luaL_ref: a reference the registry does not hold yet *)
luaL_ref == Min(RefIds \ registry)

(* _set_hndlr_ref(L, arg, def): [err, ref, reg], reg the registry after *)
_set_hndlr_ref(arg, def) ==
    IF arg.t = "none" THEN [err |-> "none", ref |-> def, reg |-> registry]
    ELSE IF arg.t \notin {"function", "string", "nil"}
         THEN [err |-> "InvalidArgument", ref |-> def, reg |-> registry]
    ELSE IF arg.t = "function"
         THEN [err |-> "none", ref |-> luaL_ref,
               reg |-> registry \cup {luaL_ref}]
    ELSE IF arg.t = "string"
         THEN IF arg.s \notin globals
              THEN [err |-> "InvalidArgument", ref |-> def, reg |-> registry]
              ELSE [err |-> "none", ref |-> luaL_ref,
                    reg |-> registry \cup {luaL_ref}]
    ELSE [err |-> "none", ref |-> LUA_NOREF, reg |-> registry]

(* whether _set_hndlr_ref would take a new reference *)
TakesRef(arg) ==
    arg.t = "function" \/ (arg.t = "string" /\ arg.s \in globals)

(* a tail that stores the new reference and forgets the previous one *)
StoreHndlr_leaking(ctx, h, r) ==
    IF r.ref # ctx[h]
    THEN [ctx |-> [ctx EXCEPT ![h] = r.ref], reg |-> r.reg]
    ELSE [ctx |-> ctx, reg |-> r.reg]

(* the tail shared by set_req_handler, set_resp_handler, set_nack_handler  *)
(* and bind_server: store the new reference in field h of context ctx,     *)
(* unreferencing the previous one                                          *)
StoreHndlr(ctx, h, r) ==
    IF r.ref # ctx[h]
    THEN [ctx |-> [ctx EXCEPT ![h] = r.ref],
          reg |-> IF ctx[h] # LUA_NOREF THEN r.reg \ {ctx[h]} ELSE r.reg]
    ELSE [ctx |-> ctx, reg |-> r.reg]

(* set_req_handler / set_resp_handler / set_nack_handler on field h *)
SetHndlr(h, arg) ==
    LET r == _set_hndlr_ref(arg, LUA_NOREF)
    IN  IF r.err # "none"
        THEN [err |-> r.err, ctx |-> lib_ctx, reg |-> registry]
        ELSE [err |-> "none"] @@ StoreHndlr(lib_ctx, h, r)

(* bind_server(intf_addr, port, [req_handler]); epOk: coap_new_endpoint()  *)
(* returned an endpoint                                                    *)
BindServer(port, resolves, epOk, arg) ==
    IF port < 0 \/ port >= 65535
    THEN [err |-> "InvalidArgument", ctx |-> lib_ctx, reg |-> registry]
    ELSE IF ~_get_coap_addr(resolves, port)
    THEN [err |-> "InvalidArgument", ctx |-> lib_ctx, reg |-> registry]
    ELSE
    LET ctx1 == IF epOk
                THEN [lib_ctx EXCEPT !.ep = lib_ctx.neps + 1,
                                     !.neps = @ + 1]
                ELSE [lib_ctx EXCEPT !.ep = 0]
        r == _set_hndlr_ref(arg, lib_ctx.reqh)
    IN  IF ~epOk
        THEN [err |-> "EngineFailure", ctx |-> ctx1, reg |-> registry]
        ELSE IF r.err # "none"
        THEN [err |-> r.err, ctx |-> ctx1, reg |-> registry]
        ELSE [err |-> "none"] @@ StoreHndlr(ctx1, "reqh", r)

HndlrArgIn ==
    {LNone, LNil, LFun, LStr(REQ_HANDLER), LStr(RESP_HANDLER),
     LStr(NACK_HANDLER), LOther}

(* -------------------------------- Init -------------------------------- *)
_init_lib_ctx ==
    [max_pdu_sz |-> MAX_COAP_PDU_SIZE, reqh |-> LUA_NOREF,
     resph |-> LUA_NOREF, nackh |-> LUA_NOREF, ep |-> 0, neps |-> 0]

Init ==
    /\ pdus = [p \in PduIds |-> NoPduRec]
    /\ objs = [o \in ObjIds |-> NoObjRec]
    /\ conns = [c \in ConnIds |-> NoConnRec]
    /\ sessions = [s \in SessIds |-> NoSessRec]
    /\ lib_ctx = _init_lib_ctx
    /\ globals = {}
    /\ registry = {}
    /\ iters = NoIters
    /\ cached = NoClosure
    /\ hctx = [kind |-> "none", a |-> NoObj, b |-> NoObj, fn |-> LNil]
    /\ res = NoRes
    /\ halted = FALSE


(* ----------------------------- script steps --------------------------- *)
(* no callback is running; fn is the callable a running callback pushed:  *)
(* the registry reference, or the name of the global function             *)
NoHndlr == [kind |-> "none", a |-> NoObj, b |-> NoObj, fn |-> LNil]

(* the arguments the script passes to a method *)
ArgsOf(fn) ==
    CASE fn = "set_type" -> {<<LNum(5)>>, <<>>}
      [] fn = "set_code" -> {<<LNum(c)>> : c \in CodeIn}
      [] fn = "set_msg_id" -> {<<LNum(65538)>>}
      [] fn = "get_payload" -> {<<>>, <<LBool(TRUE)>>}
      [] fn = "send" ->
            {<<v>> : v \in PayloadIn}
                \cup {<<LNum(404)>>, <<LNum(205), LStr(<<111, 107>>)>>}
      [] OTHER -> {<<>>}

(* the method names the script steps use *)
MethodIn == {"get_code", "set_code", "get_connection", "send"}

(* the method names the script takes a closure of *)
CacheIn == {"set_code", "send"}

(* the call's outcome becomes the state; a crash takes the process, and   *)
(* with it the library and everything the script held, away                *)
Apply(r, op) ==
    /\ halted' = r.halt
    /\ res' = IF "tid" \in DOMAIN r
              THEN [op |-> op, err |-> r.err, val |-> r.val, tid |-> r.tid]
              ELSE [op |-> op, err |-> r.err, val |-> r.val]
    /\ IF r.halt
       THEN /\ pdus' = [p \in PduIds |-> NoPduRec]
            /\ objs' = [o \in ObjIds |-> NoObjRec]
            /\ conns' = [c \in ConnIds |-> NoConnRec]
            /\ sessions' = [x \in SessIds |-> NoSessRec]
            /\ lib_ctx' = _init_lib_ctx
            /\ globals' = {}
            /\ registry' = {}
            /\ iters' = NoIters
            /\ cached' = NoClosure
            /\ hctx' = NoHndlr
       ELSE /\ pdus' = Sweep(r.pdus, r.objs)
            /\ objs' = r.objs
            /\ conns' = Pack(r.conns)
            /\ sessions' = SweepSess(r.sessions, r.conns, r.objs)
            /\ iters' = IF "iters" \in DOMAIN r THEN r.iters ELSE iters
            /\ registry' = IF "reg" \in DOMAIN r THEN r.reg ELSE registry
            /\ UNCHANGED <<lib_ctx, globals, cached, hctx>>

(* msg = new_msg(type, code, msg_id) *)
NewMsg(oks) ==
    /\ ~halted
    /\ FreePdus # {} /\ FreeObjs # {}
    /\ Cardinality({p \in PduIds : pdus[p].st # "unused"
                                   /\ pdus[p].made = "script"}) < MaxMsgs
    /\ \E t \in TypeIn, pduOk \in oks :
         \E r \in l_coap_new_msg(
                      <<LNum(t), LNum(COAP_REQUEST_GET), LNum(1)>>, pduOk) :
            Apply(r, "new_msg")

(* conn = new_connection(addr, port) *)
NewConnection(ports, oks) ==
    /\ ~halted
    /\ FreeSess # {} /\ FreeConns # {}
    /\ \E port \in ports, resolves \in oks, sessOk \in oks :
         \E r \in l_coap_new_connection(port, resolves, sessOk) :
            Apply(r, "new_connection")

(* obj.fn(args) or obj:fn(args): the dispatcher, then the method it      *)
(* returned                                                                *)
Call(o, fn, a) ==
    IF _pdu_obj_dispacher(o, fn) # "none"
    THEN {Same(_pdu_obj_dispacher(o, fn), LNil)}
    ELSE Invoke(fn, o, a)

MethodCall(o, fn) ==
    /\ ~halted
    /\ ObjAlive(o)
    /\ fn = "get_connection" => FreeConns # {}
    /\ \E a \in ArgsOf(fn) : \E r \in Call(o, fn, a) : Apply(r, "method")

(* f = obj.fn: the dispatcher alone; the script keeps the closure *)
IndexMethod(o, fn) ==
    /\ ~halted
    /\ ObjAlive(o)
    /\ res' = [op |-> "method", err |-> _pdu_obj_dispacher(o, fn),
               val |-> LNil]
    /\ cached' = IF _pdu_obj_dispacher(o, fn) = "none"
                 THEN [o |-> o, fn |-> fn]
                 ELSE cached
    /\ UNCHANGED <<pdus, objs, conns, sessions, lib_ctx, globals, registry, iters,
                   hctx, halted>>

(* f(args): a kept closure is called; no dispatcher is involved *)
CallCached ==
    /\ ~halted
    /\ cached # NoClosure
    /\ \E a \in ArgsOf(cached.fn) :
          \E r \in Invoke(cached.fn, cached.o, a) : Apply(r, "cached")

(* conn.send(msg, payload) *)
ConnSend(c, m) ==
    /\ ~halted
    /\ conns[c].st = "alive"
    /\ m = NoObj \/ ObjAlive(m)
    /\ m # NoObj => pdus[objs[m].pdu].nsend < MaxSends
    /\ \E parg \in PayloadIn : \E r \in l_coap_conn_send(c, m, parg) :
          Apply(r, "conn_send")

(* the collector finalizes a PDU object the script dropped; the arguments  *)
(* of a running handler are on the stack and stay.  The script is taken    *)
(* to drop a closure together with the object it took it from (the         *)
(* closure holds the object as a light userdata, which would not keep it). *)
PduGc(o) ==
    /\ ~halted
    /\ ObjAlive(o)
    /\ o \notin {hctx.a, hctx.b}
    /\ pdus' = Sweep(_pdu_obj_gc(o), [objs EXCEPT ![o] = NoObjRec])
    /\ objs' = [objs EXCEPT ![o] = NoObjRec]
    /\ sessions' = SweepSess(sessions, conns, [objs EXCEPT ![o] = NoObjRec])
    /\ cached' = IF cached.o = o THEN NoClosure ELSE cached
    /\ res' = [op |-> "pdu_gc", err |-> "none",
               val |-> LBool(_pdu_obj_gc(o) # pdus)]
    /\ UNCHANGED <<conns, lib_ctx, globals, registry, iters, hctx, halted>>

(* the collector finalizes a connection object, between two callbacks; a   *)
(* session that is released takes the messages queued on it along          *)
ConnGc(c) ==
    /\ ~halted
    /\ conns[c].st = "alive"
    /\ hctx.kind = "none"
    /\ sessions' = SweepSess(_conn_obj_gc(c),
                             [conns EXCEPT ![c] = NoConnRec], objs)
    /\ conns' = Pack([conns EXCEPT ![c] = NoConnRec])
    /\ pdus' = Sweep([p \in PduIds |->
                         IF conns[c].gc # 0 /\ pdus[p].st = "live"
                            /\ pdus[p].q = conns[c].session
                         THEN Released(pdus[p]) ELSE pdus[p]], objs)
    /\ res' = [op |-> "conn_gc", err |-> "none",
               val |-> LBool(_conn_obj_gc(c) # sessions)]
    /\ UNCHANGED <<objs, lib_ctx, globals, registry, iters, cached, hctx,
                   halted>>

(* the script defines global functions of the names *)
DefineGlobal(names) ==
    /\ ~halted
    /\ ~(names \subseteq globals)
    /\ globals' = globals \cup names
    /\ UNCHANGED <<pdus, objs, conns, sessions, lib_ctx, registry, iters, cached,
                   hctx, res, halted>>

SetHandler(h, op) ==
    /\ ~halted
    /\ \E arg \in HndlrArgIn :
         /\ TakesRef(arg) => RefIds \ registry # {}
         /\ lib_ctx' = SetHndlr(h, arg).ctx
         /\ registry' = SetHndlr(h, arg).reg
         /\ res' = [NoRes EXCEPT !.op = op, !.err = SetHndlr(h, arg).err]
    /\ UNCHANGED <<pdus, objs, conns, sessions, globals, iters, cached, hctx,
                   halted>>

l_coap_set_req_handler == SetHandler("reqh", "set_req_handler")

l_coap_set_resp_handler == SetHandler("resph", "set_resp_handler")

l_coap_set_nack_handler == SetHandler("nackh", "set_nack_handler")

l_coap_bind_server(ports, oks, args) ==
    /\ ~halted
    /\ \E port \in ports, resolves \in oks, epOk \in oks, arg \in args :
         /\ TakesRef(arg) => RefIds \ registry # {}
         /\ epOk => lib_ctx.neps < MaxEps
         /\ lib_ctx' = BindServer(port, resolves, epOk, arg).ctx
         /\ registry' = BindServer(port, resolves, epOk, arg).reg
         /\ res' = [NoRes EXCEPT !.op = "bind_server",
                                 !.err = BindServer(port, resolves, epOk,
                                                    arg).err]
    /\ UNCHANGED <<pdus, objs, conns, sessions, globals, iters, cached, hctx,
                   halted>>


(* ------------------------ engine callbacks ---------------------------- *)
(* a handler is found: the registered reference, else the global function  *)
(* of the default name                                                     *)
Resolved(h, name) == lib_ctx[h] # LUA_NOREF \/ name \in globals

(* a lookup that prefers the global function to the reference *)
Pushed_global_first(h, name) ==
    IF name \in globals THEN LStr(name) ELSE LNum(lib_ctx[h])

(* the callable a callback pushes before its arguments: the registry value *)
(* of the reference, named by the reference, else the global function,     *)
(* named by its name                                                       *)
Pushed(h, name) ==
    IF lib_ctx[h] # LUA_NOREF THEN LNum(lib_ctx[h]) ELSE LStr(name)

(* a table that answers FETCH like POST *)
_get_coap_resp_code_fetch_as_post(req_code) ==
    CASE req_code \in {COAP_REQUEST_GET} -> 205
      [] req_code \in {COAP_REQUEST_POST, COAP_REQUEST_FETCH,
                       COAP_REQUEST_PATCH, COAP_REQUEST_IPATCH} -> 204
      [] req_code = COAP_REQUEST_PUT -> 201
      [] req_code = COAP_REQUEST_DELETE -> 202
      [] OTHER -> 0

(* _get_coap_resp_code *)
_get_coap_resp_code(req_code) ==
    CASE req_code = COAP_REQUEST_GET -> 205
      [] req_code = COAP_REQUEST_POST -> 204
      [] req_code = COAP_REQUEST_PUT -> 201
      [] req_code = COAP_REQUEST_DELETE -> 202
      [] req_code = COAP_REQUEST_FETCH -> 205
      [] req_code = COAP_REQUEST_PATCH -> 204
      [] req_code = COAP_REQUEST_IPATCH -> 204
      [] OTHER -> 0

(* a PDU object as a callback makes it *)
HndlrObj(p, s, def_code, ro, hndlr) ==
    [st |-> "alive", pdu |-> p, session |-> s, def_code |-> def_code,
     ro |-> ro, lck |-> 0, hndlr |-> hndlr]

(* a PDU of the engine's, handed to a callback *)
EnginePdu(type, code, tid, data) ==
    [coap_pdu_init(type, code, tid) EXCEPT !.made = "engine",
                                           !.own = "engine", !.data = data]

(* _coap_req_hndlr up to its lua_call(): the engine received a request     *)
(* on the bound endpoint and made the response PDU for it                  *)
_coap_req_hndlr(codes) ==
    /\ ~halted
    /\ hctx.kind = "none"
    /\ lib_ctx.ep # 0
    /\ IF ~Resolved("reqh", REQ_HANDLER)
       THEN /\ res' = [NoRes EXCEPT !.op = "req_event", !.err = "dropped"]
            /\ UNCHANGED <<pdus, objs, sessions, hctx>>
       ELSE /\ Cardinality(FreePdus) >= 2 /\ Cardinality(FreeObjs) >= 2
            /\ \E type \in TypeIn, code \in codes :
                 LET request == Min(FreePdus)
                     response == Min(FreePdus \ {request})
                     ud_req == Min(FreeObjs)
                     ud_resp == Min(FreeObjs \ {ud_req})
                 IN  /\ pdus' =
                          [pdus EXCEPT
                             ![request] = EnginePdu(type, code, 7, <<>>),
                             ![response] =
                                EnginePdu(IF type = COAP_MESSAGE_CON
                                          THEN COAP_MESSAGE_ACK
                                          ELSE COAP_MESSAGE_NON, 0, 7, <<>>)]
                     /\ objs' =
                          [objs EXCEPT
                             ![ud_req] = HndlrObj(request, ServerSess, 0, 1,
                                                  ACS_REQ_HNDLR),
                             ![ud_resp] =
                                HndlrObj(response, ServerSess,
                                         _get_coap_resp_code(code), 0,
                                         ACS_REQ_HNDLR)]
                     /\ hctx' = [kind |-> "req", a |-> ud_req, b |-> ud_resp,
                                 fn |-> Pushed("reqh", REQ_HANDLER)]
            /\ sessions' = [sessions EXCEPT ![ServerSess].st = "open"]
            /\ res' = [NoRes EXCEPT !.op = "req_event"]
    /\ UNCHANGED <<conns, lib_ctx, globals, registry, iters, cached, halted>>

(* _coap_req_hndlr after its lua_call(): the handler returned; a response  *)
(* with a non-empty code is sent by the engine, which then releases both   *)
(* PDUs                                                                    *)
_coap_req_hndlr_return ==
    /\ ~halted
    /\ hctx.kind = "req"
    /\ LET request == objs[hctx.a].pdu
           response == objs[hctx.b].pdu
           pd1 == IF pdus[response].code # 0
                  THEN [pdus EXCEPT ![response].nsend = @ + 1]
                  ELSE pdus
       IN  pdus' = Sweep([pd1 EXCEPT ![request] = Released(@),
                                     ![response] = Released(@)], objs)
    /\ hctx' = NoHndlr
    /\ res' = [NoRes EXCEPT !.op = "req_return"]
    /\ UNCHANGED <<objs, conns, sessions, lib_ctx, globals, registry, iters, cached,
                   halted>>

(* a finish: part that acknowledges a message of any type *)
AutoAck_any_type(handle_ack, type, tid) ==
    IF handle_ack THEN LNum(tid) ELSE LNil

(* the finish: part of _coap_resp_hndlr: the message id of the empty ACK  *)
(* it sends, as a Lua number, or nil when it sends none                    *)
AutoAck(handle_ack, type, tid) ==
    IF handle_ack /\ type % 4 = COAP_MESSAGE_CON THEN LNum(tid) ELSE LNil

(* the messages the engine keeps queued on an open session *)
Queued ==
    {p \in PduIds : pdus[p].st = "live" /\ pdus[p].q # -1
                    /\ sessions[pdus[p].q].st = "open"}

(* _coap_resp_hndlr up to its lua_call(), or all of it when no handler is  *)
(* found: the engine received the response to a queued message             *)
_coap_resp_hndlr ==
    /\ ~halted
    /\ hctx.kind = "none"
    /\ \E sent \in Queued, type \in {COAP_MESSAGE_CON, COAP_MESSAGE_ACK} :
         IF ~Resolved("resph", RESP_HANDLER)
         THEN /\ pdus' = Sweep([pdus EXCEPT ![sent] = Released(@)], objs)
              /\ res' = [op |-> "resp_event", err |-> "dropped",
                         val |-> AutoAck(TRUE, type, pdus[sent].tid),
                         ret |-> LNone, type |-> type]
              /\ UNCHANGED <<objs, hctx>>
         ELSE /\ FreePdus # {} /\ Cardinality(FreeObjs) >= 2
              /\ LET received == Min(FreePdus)
                     ud_sent == Min(FreeObjs)
                     ud_rcvd == Min(FreeObjs \ {ud_sent})
                 IN  /\ pdus' =
                          [pdus EXCEPT
                             ![received] =
                                EnginePdu(type, COAP_RESPONSE_CODE(205),
                                          pdus[sent].tid, <<111, 107>>)]
                     /\ objs' =
                          [objs EXCEPT
                             ![ud_sent] = HndlrObj(sent, pdus[sent].q, 0, 1,
                                                   ACS_RESP_HNDLR),
                             ![ud_rcvd] = HndlrObj(received, pdus[sent].q, 0,
                                                   1, ACS_RESP_HNDLR)]
                     /\ hctx' = [kind |-> "resp", a |-> ud_sent,
                                 b |-> ud_rcvd,
                                 fn |-> Pushed("resph", RESP_HANDLER)]
              /\ res' = [NoRes EXCEPT !.op = "resp_event"]
    /\ UNCHANGED <<conns, sessions, lib_ctx, globals, registry, iters, cached,
                   halted>>

(* what the response handler returned; LNone: it returned no value, which *)
(* lua_call() with one result turns into nil                               *)
RetIn == {LNone, LNil, LBool(TRUE), LBool(FALSE), LNum(1)}

(* _coap_resp_hndlr after its lua_call() *)
_coap_resp_hndlr_return ==
    /\ ~halted
    /\ hctx.kind = "resp"
    /\ \E ret \in RetIn :
         LET sent == objs[hctx.a].pdu
             received == objs[hctx.b].pdu
             handle_ack == IF ret.t = "boolean" THEN ret.n # 0 ELSE TRUE
         IN  /\ res' = [op |-> "resp_return", err |-> "none",
                        val |-> AutoAck(handle_ack, pdus[received].type,
                                        pdus[received].tid),
                        ret |-> ret, type |-> pdus[received].type]
             /\ pdus' = Sweep([pdus EXCEPT ![sent] = Released(@),
                                           ![received] = Released(@)], objs)
    /\ hctx' = NoHndlr
    /\ UNCHANGED <<objs, conns, sessions, lib_ctx, globals, registry, iters, cached,
                   halted>>

(* _coap_nack_hndlr up to its lua_call(), or all of it when no handler is  *)
(* found: the engine gave up on a queued message                           *)
_coap_nack_hndlr ==
    /\ ~halted
    /\ hctx.kind = "none"
    /\ \E sent \in Queued :
         IF ~Resolved("nackh", NACK_HANDLER)
         THEN /\ pdus' = Sweep([pdus EXCEPT ![sent] = Released(@)], objs)
              /\ res' = [NoRes EXCEPT !.op = "nack_event", !.err = "dropped"]
              /\ UNCHANGED <<objs, hctx>>
         ELSE /\ FreeObjs # {}
              /\ LET ud_sent == Min(FreeObjs)
                 IN  /\ objs' =
                          [objs EXCEPT
                             ![ud_sent] = HndlrObj(sent, pdus[sent].q, 0, 1,
                                                   ACS_NACK_HNDLR)]
                     /\ hctx' = [kind |-> "nack", a |-> ud_sent, b |-> NoObj,
                                 fn |-> Pushed("nackh", NACK_HANDLER)]
              /\ res' = [NoRes EXCEPT !.op = "nack_event"]
              /\ UNCHANGED pdus
    /\ UNCHANGED <<conns, sessions, lib_ctx, globals, registry, iters, cached,
                   halted>>

(* _coap_nack_hndlr after its lua_call(): the engine releases the message *)
_coap_nack_hndlr_return ==
    /\ ~halted
    /\ hctx.kind = "nack"
    /\ pdus' = Sweep([pdus EXCEPT ![objs[hctx.a].pdu] = Released(@)], objs)
    /\ hctx' = NoHndlr
    /\ res' = [NoRes EXCEPT !.op = "nack_return"]
    /\ UNCHANGED <<objs, conns, sessions, lib_ctx, globals, registry, iters, cached,
                   halted>>

(* ------------------------------- Next --------------------------------- *)
Next ==
    \/ NewMsg(OkIn)
    \/ NewConnection({5683}, OkIn)
    \/ \E o \in ObjIds, fn \in MethodIn : MethodCall(o, fn)
    \/ \E o \in ObjIds, fn \in CacheIn : IndexMethod(o, fn)
    \/ CallCached
    \/ \E c \in ConnIds, m \in ObjIds : ConnSend(c, m)
    \/ \E o \in ObjIds : PduGc(o)
    \/ \E c \in ConnIds : ConnGc(c)
    \/ DefineGlobal({REQ_HANDLER, RESP_HANDLER, NACK_HANDLER})
    \/ l_coap_bind_server({5683}, OkIn, {LNone})
    \/ _coap_req_hndlr(ReqCodeIn)
    \/ _coap_req_hndlr_return
    \/ _coap_resp_hndlr
    \/ _coap_resp_hndlr_return
    \/ _coap_nack_hndlr
    \/ _coap_nack_hndlr_return

Spec == Init /\ [][Next]_vars

(* --------------- token and options of one message --------------------- *)
(* A second specification for the token / option / Uri-Path methods.  It   *)
(* starts with a message in the script's hands: one just made by new_msg,  *)
(* or the request and the response of a request handler that is running,  *)
(* the request carrying whatever the peer sent.  The script then calls     *)
(* the six methods, through the dispatcher, in any order.                  *)

(* options as a peer may send them: raw values of any length *)
RecvOptsIn ==
    {<<>>,
     <<[type |-> COAP_OPTION_URI_PATH, val |-> <<97>>],
       [type |-> COAP_OPTION_URI_PATH, val |-> <<>>],
       [type |-> COAP_OPTION_MAXAGE, val |-> <<1, 0, 0, 0, 0>>]>>,
     <<[type |-> COAP_OPTION_OBSERVE, val |-> <<0, 1, 2>>],
       [type |-> 2049, val |-> <<1, 2>>],
       [type |-> 2050, val |-> <<>>]>>}

RecvTokenIn == {<<>>, <<116>>}

(* 256 elements, one more than an opaque value may have *)
Bytes(n) == [i \in 1..n |-> ENum(i % 256)]

SetOptionIn ==
    {<<LNum(COAP_OPTION_MAXAGE), LNum(0)>>,
     <<LNum(COAP_OPTION_MAXAGE), LNum(65536)>>,
     <<LNum(COAP_OPTION_MAXAGE), LBig(<<255, 255, 255, 255>>)>>,
     <<LNum(COAP_OPTION_ETAG), LTab(<<ENum(1), ENum(363)>>)>>,
     <<LNum(COAP_OPTION_ETAG), LTab(<<ENum(0), ENum(255)>>)>>,
     <<LNum(COAP_OPTION_ETAG), LTab(<<>>)>>,
     <<LNum(COAP_OPTION_ETAG), LTab(Bytes(256))>>,
     <<LNum(COAP_OPTION_ETAG), LStr(<<120>>)>>,
     <<LNum(COAP_OPTION_URI_PATH), LStr(<<97>>)>>,
     <<LNum(COAP_OPTION_URI_PATH)>>,
     <<LNum(2049), LNum(258)>>,
     <<LNum(2049), LStr(<<97>>)>>,
     <<LNum(2049), LTab(<<ENum(7)>>)>>,
     <<LNum(2049), LBool(TRUE)>>}

GetOptionIn ==
    {<<LNum(t)>> : t \in {COAP_OPTION_ETAG, COAP_OPTION_OBSERVE,
                          COAP_OPTION_URI_PATH, COAP_OPTION_MAXAGE,
                          2049, 2050}}

SetTokenIn ==
    {<<>>, <<LStr(<<116>>)>>, <<LStr(<<1, 2, 3, 4, 5, 6, 7, 8, 9>>)>>,
     <<LTab(<<ENum(1), ENum(300)>>)>>, <<LTab(<<ENum(1), EStr>>)>>,
     <<LTab(Bytes(9))>>, <<LNum(5)>>}

(* "/a/b", "//a/", "/", {"a", "", "b"}, {"a", 1}, 1 *)
SetUriPathIn ==
    {<<LStr(<<47, 97, 47, 98>>)>>, <<LStr(<<47, 47, 97, 47>>)>>,
     <<LStr(<<47>>)>>,
     <<LTab(<<EStrOf(<<97>>), EStrOf(<<>>), EStrOf(<<98>>)>>)>>,
     <<LTab(<<EStrOf(<<97>>), ENum(1)>>)>>, <<LNum(1)>>}

AsArrIn == {<<>>, <<LBool(TRUE)>>}

(* the message of new_msg(CON, GET, 1) *)
OptInitFresh ==
    /\ pdus = [p \in PduIds |->
                  IF p = 1
                  THEN coap_pdu_init(COAP_MESSAGE_CON,
                                     COAP_RESPONSE_CODE(COAP_REQUEST_GET), 1)
                  ELSE NoPduRec]
    /\ objs = [o \in ObjIds |->
                  IF o = 1
                  THEN [NoObjRec EXCEPT !.st = "alive", !.pdu = 1,
                                        !.hndlr = ACS_NO_HNDLR]
                  ELSE NoObjRec]
    /\ sessions = [s \in SessIds |-> NoSessRec]
    /\ lib_ctx = _init_lib_ctx
    /\ globals = {}
    /\ hctx = NoHndlr

(* inside the request handler: the engine made the response and put the    *)
(* request's token into it before it called _coap_req_hndlr                *)
OptInitReqh ==
    \E opts \in RecvOptsIn, token \in RecvTokenIn :
        /\ pdus = [p \in PduIds |->
                      IF p = 1
                      THEN [EnginePdu(COAP_MESSAGE_CON, COAP_REQUEST_GET, 7,
                                      <<>>)
                               EXCEPT !.opts = opts, !.token = token]
                      ELSE [EnginePdu(COAP_MESSAGE_ACK, 0, 7, <<>>)
                               EXCEPT !.token = token]]
        /\ objs = [o \in ObjIds |->
                      IF o = 1
                      THEN HndlrObj(1, ServerSess, 0, 1, ACS_REQ_HNDLR)
                      ELSE HndlrObj(2, ServerSess,
                                    _get_coap_resp_code(COAP_REQUEST_GET), 0,
                                    ACS_REQ_HNDLR)]
        /\ sessions = [s \in SessIds |->
                          IF s = ServerSess
                          THEN [NoSessRec EXCEPT !.st = "open"]
                          ELSE NoSessRec]
        /\ lib_ctx = [_init_lib_ctx EXCEPT !.ep = 1, !.neps = 1]
        /\ globals = {REQ_HANDLER}
        /\ hctx = [kind |-> "req", a |-> 1, b |-> 2, fn |-> LStr(REQ_HANDLER)]

OptInit ==
    /\ OptInitFresh \/ OptInitReqh
    /\ conns = [c \in ConnIds |-> NoConnRec]
    /\ registry = {}
    /\ iters = NoIters
    /\ cached = NoClosure
    /\ res = NoRes
    /\ halted = FALSE

(* the options a message is let grow to *)
OptRoom(o) == Len(pdus[objs[o].pdu].opts) < MaxOpts

SetToken(o) ==
    /\ ~halted /\ ObjAlive(o)
    /\ \E a \in SetTokenIn : \E r \in Call(o, "set_token", a) :
          Apply(r, "set_token")

GetToken(o) ==
    /\ ~halted /\ ObjAlive(o)
    /\ \E a \in AsArrIn : \E r \in Call(o, "get_token", a) :
          Apply(r, "get_token")

SetOption(o) ==
    /\ ~halted /\ ObjAlive(o) /\ OptRoom(o)
    /\ \E a \in SetOptionIn : \E r \in Call(o, "set_option", a) :
          Apply(r, "set_option")

GetOption(o) ==
    /\ ~halted /\ ObjAlive(o)
    /\ \E a \in GetOptionIn : \E r \in Call(o, "get_option", a) :
          Apply(r, "get_option")

SetUriPath(o) ==
    /\ ~halted /\ ObjAlive(o) /\ OptRoom(o)
    /\ \E a \in SetUriPathIn : \E r \in Call(o, "set_uri_path", a) :
          Apply(r, "set_uri_path")

GetUriPath(o) ==
    /\ ~halted /\ ObjAlive(o)
    /\ \E a \in AsArrIn : \E r \in Call(o, "get_uri_path", a) :
          Apply(r, "get_uri_path")

OptNext ==
    \/ \E o \in ObjIds : SetToken(o)
    \/ \E o \in ObjIds : GetToken(o)
    \/ \E o \in ObjIds : SetOption(o)
    \/ \E o \in ObjIds : GetOption(o)
    \/ \E o \in ObjIds : SetUriPath(o)
    \/ \E o \in ObjIds : GetUriPath(o)

OptSpec == OptInit /\ [][OptNext]_vars

(* ------------------ the query string of one request ------------------- *)
(* A third specification, for the Uri-Query methods and the two            *)
(* iterators.  It starts inside a request handler, the request carrying    *)
(* what the peer sent; the script reads parameters, adds some to the       *)
(* response, makes iteration states, steps them, drops them, and the       *)
(* handler returns at some point, after which the script may still hold    *)
(* what it made.  The messages stay far below the size at which the        *)
(* engine moves a PDU that grows, so an iterator's pointer stays good      *)
(* while the PDU lives.                                                    *)
UP(s) == [type |-> COAP_OPTION_URI_PATH, val |-> s]

UQ(s) == [type |-> COAP_OPTION_URI_QUERY, val |-> s]

(* ?%20name%20=%20val%20&flag on /p; ?%20=%20x&=x&a=%20; ?a&A=3&a=1;       *)
(* nothing                                                                 *)
RecvQryIn ==
    {<<UP(<<112>>),
       UQ(<<32, 110, 97, 109, 101, 32, 61, 32, 118, 97, 108, 32>>),
       UQ(<<102, 108, 97, 103>>)>>,
     <<UQ(<<32, 61, 32, 120>>), UQ(<<61, 120>>), UQ(<<97, 61, 32>>)>>,
     <<UQ(<<97>>), UQ(<<65, 61, 51>>), UQ(<<97, 61, 49>>)>>,
     <<>>}

(* n names: "a", "b", ... *)
Names(n) == [k \in 1..n |-> LStr(<<96 + k>>)]

QstrParamsIn ==
    {Names(0), Names(1), <<LStr(<<102, 108, 97, 103>>), LStr(<<97>>)>>,
     Names(MAX_QSTR_PARAMS_ARGS), Names(MAX_QSTR_PARAMS_ARGS + 1),
     <<LBool(TRUE)>>}

OptionsIn ==
    {<<>>, <<LNum(COAP_OPTION_URI_QUERY)>>,
     <<LNum(COAP_OPTION_URI_PATH), LNum(65536 + COAP_OPTION_URI_QUERY)>>,
     <<LNum(COAP_OPTION_IF_MATCH), LNum(COAP_OPTION_URI_HOST),
       LNum(COAP_OPTION_ETAG), LNum(COAP_OPTION_IF_NONE_MATCH),
       LNum(COAP_OPTION_URI_PORT), LNum(COAP_OPTION_URI_PATH),
       LNum(COAP_OPTION_URI_QUERY)>>,
     <<LBool(TRUE)>>}

(* "a", "A", " ", none *)
GetQstrParamIn ==
    {<<LStr(<<97>>)>>, <<LStr(<<65>>)>>, <<LStr(<<32>>)>>, <<>>}

QryInit ==
    /\ \E opts \in RecvQryIn :
        /\ pdus = [p \in PduIds |->
                      IF p = 1
                      THEN [EnginePdu(COAP_MESSAGE_CON, COAP_REQUEST_GET, 7,
                                      <<>>)
                               EXCEPT !.opts = opts]
                      ELSE EnginePdu(COAP_MESSAGE_ACK, 0, 7, <<>>)]
    /\ objs = [o \in ObjIds |->
                  IF o = 1
                  THEN HndlrObj(1, ServerSess, 0, 1, ACS_REQ_HNDLR)
                  ELSE HndlrObj(2, ServerSess,
                                _get_coap_resp_code(COAP_REQUEST_GET), 0,
                                ACS_REQ_HNDLR)]
    /\ sessions = [s \in SessIds |->
                      IF s = ServerSess
                      THEN [NoSessRec EXCEPT !.st = "open"]
                      ELSE NoSessRec]
    /\ lib_ctx = [_init_lib_ctx EXCEPT !.ep = 1, !.neps = 1]
    /\ globals = {REQ_HANDLER}
    /\ hctx = [kind |-> "req", a |-> 1, b |-> 2, fn |-> LStr(REQ_HANDLER)]
    /\ conns = [c \in ConnIds |-> NoConnRec]
    /\ registry = {}
    /\ iters = NoIters
    /\ cached = NoClosure
    /\ res = NoRes
    /\ halted = FALSE

(* for name, value in obj.qstr_params(...) *)
QstrParams(o) ==
    /\ ~halted /\ ObjAlive(o) /\ FreeIters # {}
    /\ \E a \in QstrParamsIn :
          /\ Len(a) <= MAX_QSTR_PARAMS_ARGS
                => Cardinality(RefIds \ registry) >= Len(a)
          /\ \E r \in Call(o, "qstr_params", a) : Apply(r, "qstr_params")

(* for type, value in obj.options(...) *)
Options(o) ==
    /\ ~halted /\ ObjAlive(o) /\ FreeIters # {}
    /\ \E a \in OptionsIn :
          \E r \in Call(o, "options", a) : Apply(r, "options")

GetQstrParam(o) ==
    /\ ~halted /\ ObjAlive(o)
    /\ \E a \in GetQstrParamIn :
          \E r \in Call(o, "get_qstr_param", a) : Apply(r, "get_qstr_param")

(* obj.set_option(15, "a=2"): the response takes it, the request does not *)
AddQuery(o) ==
    /\ ~halted /\ ObjAlive(o)
    /\ PduLive(objs[o].pdu) => Len(pdus[objs[o].pdu].opts) < MaxOpts - 1
    /\ \E r \in Call(o, "set_option",
                      <<LNum(COAP_OPTION_URI_QUERY), LStr(<<97, 61, 50>>)>>) :
          Apply(r, "set_option")

(* the script (or its generic for) calls the iteration function with       *)
(* state i; val2 is the second value returned                              *)
ApplyStep(i, r, op) ==
    /\ halted' = r.halt
    /\ res' = [op |-> op, err |-> r.err, val |-> r.val, val2 |-> r.val2]
    /\ IF r.halt
       THEN /\ pdus' = [p \in PduIds |-> NoPduRec]
            /\ objs' = [o \in ObjIds |-> NoObjRec]
            /\ sessions' = [x \in SessIds |-> NoSessRec]
            /\ lib_ctx' = _init_lib_ctx
            /\ globals' = {}
            /\ registry' = {}
            /\ iters' = NoIters
            /\ hctx' = NoHndlr
       ELSE /\ iters' = [iters EXCEPT
                           ![i] = [r.it EXCEPT
                                     !.fin = IF r.val = LNil
                                                /\ r.val2 = LNone
                                                /\ @ < MaxFin
                                             THEN @ + 1 ELSE @]]
            /\ registry' = r.reg
            /\ UNCHANGED <<pdus, objs, sessions, lib_ctx, globals, hctx>>
    /\ UNCHANGED <<conns, cached>>

QstrParamStep(i) ==
    /\ ~halted /\ iters[i].st = "live" /\ iters[i].kind = "qstr"
    /\ \E r \in _coap_qstr_param_iter(i) : ApplyStep(i, r, "qstr_step")

OptionStep(i) ==
    /\ ~halted /\ iters[i].st = "live" /\ iters[i].kind = "options"
    /\ \E r \in _coap_option_iter(i) : ApplyStep(i, r, "option_step")

(* the script drops an iteration state and the collector frees it: the     *)
(* userdata has no finalizer                                               *)
IterGc(i) ==
    /\ ~halted /\ iters[i].st = "live"
    /\ iters' = [iters EXCEPT ![i] = NoIterRec]
    /\ res' = [NoRes EXCEPT !.op = "iter_gc"]
    /\ UNCHANGED <<pdus, objs, conns, sessions, lib_ctx, globals, registry,
                   cached, hctx, halted>>

QryNext ==
    \/ \E o \in ObjIds : QstrParams(o)
    \/ \E o \in ObjIds : Options(o)
    \/ \E o \in ObjIds : GetQstrParam(o)
    \/ \E o \in ObjIds : AddQuery(o)
    \/ \E i \in IterIds : QstrParamStep(i)
    \/ \E i \in IterIds : OptionStep(i)
    \/ \E i \in IterIds : IterGc(i)
    \/ _coap_req_hndlr_return

QrySpec == QryInit /\ [][QryNext]_vars

(* ------------------- handlers and the engine's events ----------------- *)
(* A fourth specification for the resolution of the three handlers.  It   *)
(* starts after the script bound a server, opened a connection and sent a  *)
(* Confirmable request on it, keeping the connection and dropping the      *)
(* message object.  The script then defines the global functions of the    *)
(* default names and registers or clears handlers, in any order, while     *)
(* the engine delivers requests, a response and NACKs.                     *)

(* the request methods the library registers _coap_req_hndlr for *)
EvtCodeIn ==
    {COAP_REQUEST_GET, COAP_REQUEST_POST, COAP_REQUEST_PUT,
     COAP_REQUEST_DELETE, COAP_REQUEST_FETCH, COAP_REQUEST_PATCH,
     COAP_REQUEST_IPATCH}

EvtInit ==
    /\ pdus = [p \in PduIds |->
                 IF p = 1
                 THEN [coap_pdu_init(COAP_MESSAGE_CON, COAP_REQUEST_GET, 1)
                          EXCEPT !.own = "engine", !.q = 1, !.nsend = 1]
                 ELSE NoPduRec]
    /\ objs = [o \in ObjIds |-> NoObjRec]
    /\ conns = [c \in ConnIds |->
                  IF c = 1
                  THEN [st |-> "alive", session |-> 1, gc |-> 1,
                        by |-> "new_connection"]
                  ELSE NoConnRec]
    /\ sessions = [x \in SessIds |->
                     IF x = 1 THEN [NoSessRec EXCEPT !.st = "open"]
                     ELSE NoSessRec]
    /\ lib_ctx = [_init_lib_ctx EXCEPT !.ep = 1, !.neps = 1]
    /\ globals = {}
    /\ registry = {}
    /\ iters = NoIters
    /\ cached = NoClosure
    /\ hctx = NoHndlr
    /\ res = NoRes
    /\ halted = FALSE

EvtNext ==
    \/ \E o \in ObjIds : PduGc(o)
    \/ DefineGlobal({REQ_HANDLER})
    \/ DefineGlobal({RESP_HANDLER, NACK_HANDLER})
    \/ l_coap_set_req_handler
    \/ l_coap_set_resp_handler
    \/ l_coap_set_nack_handler
    \/ _coap_req_hndlr(EvtCodeIn)
    \/ _coap_req_hndlr_return
    \/ _coap_resp_hndlr
    \/ _coap_resp_hndlr_return
    \/ _coap_nack_hndlr
    \/ _coap_nack_hndlr_return

EvtSpec == EvtInit /\ [][EvtNext]_vars

(* ----------------------- parameters of a connection ------------------- *)
(* A fifth specification for the retransmission parameters.  It starts     *)
(* after new_connection(); the script then reads and sets the maximal      *)
(* retransmit count and the ACK timeout of the connection in any order.    *)
MaxRetransmitIn == {LNum(-1), LNum(0), LNum(1), LNum(7), LNil}

(* 65535999 ms is the largest timeout whose seconds fit the uint16_t *)
AckTimeoutIn ==
    {LNum(-1), LNum(0), LNum(1), LNum(999), LNum(1000), LNum(2500),
     LNum(65535999), LNum(65536000), LNum(65537001), LNil}

ConnInit ==
    /\ pdus = [p \in PduIds |-> NoPduRec]
    /\ objs = [o \in ObjIds |-> NoObjRec]
    /\ conns = [c \in ConnIds |->
                  IF c = 1
                  THEN [st |-> "alive", session |-> 1, gc |-> 1,
                        by |-> "new_connection"]
                  ELSE NoConnRec]
    /\ sessions = [x \in SessIds |->
                     IF x = 1 THEN [NoSessRec EXCEPT !.st = "open"]
                     ELSE NoSessRec]
    /\ lib_ctx = _init_lib_ctx
    /\ globals = {}
    /\ registry = {}
    /\ iters = NoIters
    /\ cached = NoClosure
    /\ hctx = NoHndlr
    /\ res = NoRes
    /\ halted = FALSE

GetMaxRetransmit(c) ==
    /\ ~halted
    /\ conns[c].st = "alive"
    /\ \E r \in l_coap_conn_get_max_retransmit(c) :
          Apply(r, "get_max_retransmit")

SetMaxRetransmit(c) ==
    /\ ~halted
    /\ conns[c].st = "alive"
    /\ \E v \in MaxRetransmitIn :
          \E r \in l_coap_conn_set_max_retransmit(c, <<v>>) :
             Apply(r, "set_max_retransmit")

GetAckTimeout(c) ==
    /\ ~halted
    /\ conns[c].st = "alive"
    /\ \E r \in l_coap_conn_get_ack_timeout(c) : Apply(r, "get_ack_timeout")

SetAckTimeout(c) ==
    /\ ~halted
    /\ conns[c].st = "alive"
    /\ \E v \in AckTimeoutIn :
          \E r \in l_coap_conn_set_ack_timeout(c, <<v>>) :
             Apply(r, "set_ack_timeout")

ConnNext ==
    \/ \E c \in ConnIds : GetMaxRetransmit(c)
    \/ \E c \in ConnIds : SetMaxRetransmit(c)
    \/ \E c \in ConnIds : GetAckTimeout(c)
    \/ \E c \in ConnIds : SetAckTimeout(c)

ConnSpec == ConnInit /\ [][ConnNext]_vars

(* ------------------ registration, binding and teardown ---------------- *)
(* A sixth specification for the library context.  From the state after    *)
(* the library was loaded the script defines the global functions,         *)
(* registers and clears the three handlers and binds the server, with      *)
(* good and bad arguments, until the Lua state is closed.                  *)

(* _free_lib_ctx: the __gc of the library context, run when the Lua state  *)
(* is closed; coap_free_context() releases the sessions and what is        *)
(* queued on them.  Nothing of the script runs afterwards.                 *)
_free_lib_ctx ==
    /\ ~halted
    /\ hctx.kind = "none"
    /\ lib_ctx' = [lib_ctx EXCEPT !.reqh = LUA_NOREF, !.resph = LUA_NOREF,
                                  !.nackh = LUA_NOREF, !.ep = 0]
    /\ registry' = registry \ {lib_ctx.reqh, lib_ctx.resph, lib_ctx.nackh}
    /\ sessions' = [x \in SessIds |->
                      IF sessions[x].st = "open"
                      THEN [sessions[x] EXCEPT !.st = "released",
                                               !.nrel = @ + 1]
                      ELSE sessions[x]]
    /\ pdus' = [p \in PduIds |->
                  IF pdus[p].st = "live" /\ pdus[p].q # -1
                  THEN Released(pdus[p]) ELSE pdus[p]]
    /\ halted' = TRUE
    /\ res' = [NoRes EXCEPT !.op = "close"]
    /\ UNCHANGED <<objs, conns, globals, iters, cached, hctx>>

BindNext ==
    \/ DefineGlobal({REQ_HANDLER})
    \/ DefineGlobal({RESP_HANDLER, NACK_HANDLER})
    \/ l_coap_set_req_handler
    \/ l_coap_set_resp_handler
    \/ l_coap_set_nack_handler
    \/ l_coap_bind_server(PortIn, {TRUE, FALSE}, HndlrArgIn)
    \/ _free_lib_ctx

BindSpec == Init /\ [][BindNext]_vars

(* ---------------------------- finalize send --------------------------- *)
(* A seventh specification for the response of a request handler: it      *)
(* starts inside the handler of a request of one of the four methods,     *)
(* the request object 1 read-only and the response object 2 writable.     *)
SendMethodIn ==
    {COAP_REQUEST_GET, COAP_REQUEST_POST, COAP_REQUEST_PUT,
     COAP_REQUEST_DELETE}

(* resp.set_code(): 4.04, 2.31, the empty code *)
SetCodeIn == {<<LNum(404)>>, <<LNum(231)>>, <<LNum(0)>>}

(* resp.send(): no argument, a payload, a code, a code and a payload; the *)
(* payloads text, bytes, a boolean and a table with a string in it        *)
SendIn ==
    {<<>>, <<LStr(<<111, 107>>)>>, <<LTab(<<ENum(111), ENum(363)>>)>>,
     <<LOther>>, <<LTab(<<ENum(111), EStr>>)>>,
     <<LNum(404)>>, <<LNum(0)>>, <<LNum(800)>>,
     <<LNum(404), LStr(<<111, 107>>)>>, <<LNum(0), LStr(<<111, 107>>)>>,
     <<LNum(404), LOther>>, <<LNum(0), LOther>>,
     <<LNum(404), LTab(<<EStr>>)>>}

SendInit ==
    /\ \E m \in SendMethodIn :
        /\ pdus = [p \in PduIds |->
                      IF p = 1
                      THEN EnginePdu(COAP_MESSAGE_CON, m, 7, <<>>)
                      ELSE IF p = 2
                      THEN EnginePdu(COAP_MESSAGE_ACK, 0, 7, <<>>)
                      ELSE NoPduRec]
        /\ objs = [o \in ObjIds |->
                      IF o = 1
                      THEN HndlrObj(1, ServerSess, 0, 1, ACS_REQ_HNDLR)
                      ELSE IF o = 2
                      THEN HndlrObj(2, ServerSess, _get_coap_resp_code(m), 0,
                                    ACS_REQ_HNDLR)
                      ELSE NoObjRec]
    /\ sessions = [s \in SessIds |->
                      IF s = ServerSess
                      THEN [NoSessRec EXCEPT !.st = "open"]
                      ELSE NoSessRec]
    /\ lib_ctx = [_init_lib_ctx EXCEPT !.ep = 1, !.neps = 1]
    /\ globals = {REQ_HANDLER}
    /\ hctx = [kind |-> "req", a |-> 1, b |-> 2, fn |-> LStr(REQ_HANDLER)]
    /\ conns = [c \in ConnIds |-> NoConnRec]
    /\ registry = {}
    /\ iters = NoIters
    /\ cached = NoClosure
    /\ res = NoRes
    /\ halted = FALSE

(* obj.set_code(code) *)
SetCode(o) ==
    /\ ~halted /\ ObjAlive(o)
    /\ \E a \in SetCodeIn :
          \E r \in Call(o, "set_code", a) : Apply(r, "set_code")

(* obj.get_code() *)
GetCode(o) ==
    /\ ~halted /\ ObjAlive(o)
    /\ \E r \in Call(o, "get_code", <<>>) : Apply(r, "get_code")

(* obj.get_payload() *)
GetPayload(o) ==
    /\ ~halted /\ ObjAlive(o)
    /\ \E r \in Call(o, "get_payload", <<>>) : Apply(r, "get_payload")

(* obj.send(...) *)
Send(o) ==
    /\ ~halted /\ ObjAlive(o)
    /\ \E a \in SendIn : \E r \in Call(o, "send", a) : Apply(r, "send")

SendNext ==
    \/ \E o \in ObjIds : SetCode(o)
    \/ \E o \in ObjIds : GetCode(o)
    \/ \E o \in ObjIds : GetPayload(o)
    \/ \E o \in ObjIds : Send(o)
    \/ _coap_req_hndlr_return

SendSpec == SendInit /\ [][SendNext]_vars

(* ---------------------- iterations and the lock ----------------------- *)
(* An eighth specification for iterations over a message that gets sent.  *)
(* It starts inside a request handler, as QryInit, or with a message the  *)
(* script made by new_msg and gave options, and a connection to send it   *)
(* on.  The script makes iterations, steps them, and sends the message    *)
(* (resp.send() in the handler, conn.send(msg) outside) in any order.     *)
MsgInit ==
    /\ \E opts \in RecvQryIn \ {<<>>}, t \in TypeIn :
        pdus = [p \in PduIds |->
                   IF p = 1
                   THEN [coap_pdu_init(t, COAP_REQUEST_GET, 1)
                            EXCEPT !.opts = opts]
                   ELSE NoPduRec]
    /\ objs = [o \in ObjIds |->
                  IF o = 1
                  THEN [NoObjRec EXCEPT !.st = "alive", !.pdu = 1,
                                        !.hndlr = ACS_NO_HNDLR]
                  ELSE NoObjRec]
    /\ conns = [c \in ConnIds |->
                  IF c = 1
                  THEN [st |-> "alive", session |-> 1, gc |-> 1,
                        by |-> "new_connection"]
                  ELSE NoConnRec]
    /\ sessions = [x \in SessIds |->
                     IF x = 1 THEN [NoSessRec EXCEPT !.st = "open"]
                     ELSE NoSessRec]
    /\ lib_ctx = _init_lib_ctx
    /\ globals = {}
    /\ registry = {}
    /\ iters = NoIters
    /\ cached = NoClosure
    /\ hctx = NoHndlr
    /\ res = NoRes
    /\ halted = FALSE

LockInit == QryInit \/ MsgInit

LockNext ==
    \/ \E o \in ObjIds : QstrParams(o)
    \/ \E o \in ObjIds : Options(o)
    \/ \E o \in ObjIds : AddQuery(o)
    \/ \E i \in IterIds : QstrParamStep(i)
    \/ \E i \in IterIds : OptionStep(i)
    \/ \E o \in ObjIds : Send(o)
    \/ \E c \in ConnIds, m \in ObjIds : ConnSend(c, m)
    \/ _coap_req_hndlr_return

LockSpec == LockInit /\ [][LockNext]_vars

(* ------------------------------ properties ----------------------------*)
(* an object whose write methods the dispatcher serves *)
Writable(o) ==
    ObjAlive(o) /\ objs[o].lck = 0 /\ objs[o].ro = 0 /\ PduLive(objs[o].pdu)

(* the option types the static table classifies *)
UIntTypes == {t \in 0..300 : _get_coap_optval_type(t) = OPTVAL_UINT}

StringTypes == {t \in 0..300 : _get_coap_optval_type(t) = OPTVAL_STRING}

OpaqueTypes == {t \in 0..300 : _get_coap_optval_type(t) = OPTVAL_OPAQUE}

(* the option a successful set_option appended *)
LastOpt(pdu) == pdu.opts[Len(pdu.opts)]

(* every method name the PDU object's dispatcher knows *)
PduMethods == r_funcs \cup w_funcs \cup r_cmnh_funcs \cup w_reqh_funcs

(* the write methods *)
WriteMethods == w_funcs \cup w_reqh_funcs

(* the read methods whose C function the model has *)
ReadIn == {"get_type", "get_code", "get_msg_id", "get_payload"}

(* C1: once a message object is locked, every read and every write on it   *)
(* fails with ObjectLocked and leaves the PDU as it is, whether the method *)
(* is looked up after the lock or is a method function taken from the      *)
(* object before it was locked.                                            *)
C1_LockedObjectFailsEveryOperation ==
    \A o \in ObjIds :
        (ObjAlive(o) /\ objs[o].lck = 1) =>
            /\ \A fn \in PduMethods : \A a \in ArgsOf(fn) :
                  Call(o, fn, a) = {Same("ObjectLocked", LNil)}
            /\ cached.o = o =>
                  \A a \in ArgsOf(cached.fn) :
                     \A r \in Invoke(cached.fn, o, a) :
                        r.err = "ObjectLocked" /\ r.pdus = pdus

(* C2: a message made by new_msg is handed to the engine's send at most    *)
(* once, whatever the script does.                                         *)
C2_NewMsgSentAtMostOnce ==
    \A p \in PduIds : pdus[p].made = "script" => pdus[p].nsend <= 1

(* C3: once the response object of a request handler is locked by its      *)
(* first finalize send, a second send on it fails and changes neither the  *)
(* code nor the payload of the response, by whichever way the send is      *)
(* reached.                                                                *)
C3_SecondFinalizeSendFails ==
    \A o \in ObjIds :
        (ObjAlive(o) /\ objs[o].hndlr = ACS_REQ_HNDLR /\ objs[o].ro = 0
            /\ objs[o].lck = 1) =>
            /\ \A a \in ArgsOf("send") :
                  \A r \in Call(o, "send", a) :
                     r.err # "none" /\ r.pdus = pdus
            /\ (cached.o = o /\ cached.fn = "send") =>
                  \A a \in ArgsOf("send") :
                     \A r \in Invoke("send", o, a) :
                        r.err # "none" /\ r.pdus = pdus

(* C4: after a request handler has returned and the engine has sent the    *)
(* response it left a code on, the response object is locked.              *)
C4_AutoSentResponseIsLocked ==
    \A o \in ObjIds :
        (ObjAlive(o) /\ objs[o].hndlr = ACS_REQ_HNDLR /\ objs[o].ro = 0
            /\ o \notin {hctx.a, hctx.b}
            /\ pdus[objs[o].pdu].nsend > 0) =>
            objs[o].lck = 1

(* C5: no step takes the lock off: an object that is locked is locked,     *)
(* and wraps the same PDU, after every step that leaves it alive.          *)
C5_LockedStaysLocked ==
    [][\A o \in ObjIds :
          (ObjAlive(o) /\ objs[o].lck = 1 /\ objs'[o].st = "alive") =>
              (objs'[o].lck = 1 /\ objs'[o].pdu = objs[o].pdu)]_vars

(* C5 witness: an operation, refused, followed the lock of an object that  *)
(* is still locked.                                                        *)
C5_Witness ==
    /\ res.op = "method" /\ res.err = "ObjectLocked"
    /\ \E o \in ObjIds : ObjAlive(o) /\ objs[o].lck = 1

C7_ExclusiveCapabilities ==
    \A o \in ObjIds :
        ObjAlive(o) =>
            /\ _pdu_obj_dispacher(o, "send") = "none" <=>
                  (objs[o].hndlr = ACS_REQ_HNDLR /\ objs[o].ro = 0
                      /\ objs[o].lck = 0)
            /\ _pdu_obj_dispacher(o, "send") = "none" =>
                  pdus[objs[o].pdu].made = "engine"
            /\ _pdu_obj_dispacher(o, "get_connection") = "none" <=>
                  (objs[o].hndlr # ACS_NO_HNDLR /\ objs[o].lck = 0)
            /\ (cached.o = o /\ cached.fn = "send") =>
                  (objs[o].hndlr = ACS_REQ_HNDLR /\ objs[o].ro = 0)

(* C7 witness: outside any callback, with none but unlocked new_msg        *)
(* objects alive, a method call (get_connection or send, the other         *)
(* methods being valid on them) was refused as an invalid method.          *)
C7_Witness ==
    /\ hctx.kind = "none"
    /\ res.op = "method" /\ res.err = "InvalidMethod"
    /\ \E o \in ObjIds : ObjAlive(o)
    /\ \A o \in ObjIds :
          ObjAlive(o) => (objs[o].hndlr = ACS_NO_HNDLR /\ objs[o].lck = 0)

(* C8: a connection send of an object made by a handler fails with          *)
(* WrongSendPath and changes nothing: no payload is attached, the engine's *)
(* send is not called, the object is not locked.                           *)
C8_HandlerObjectRefusedByConnSend ==
    \A c \in ConnIds, m \in ObjIds :
        (conns[c].st = "alive" /\ ObjAlive(m)
            /\ objs[m].hndlr # ACS_NO_HNDLR) =>
            \A parg \in PayloadIn :
                l_coap_conn_send(c, m, parg) = {Same("WrongSendPath", LNil)}

(* C8 witness: a connection send was refused with WrongSendPath. *)
C8_Witness == res.op = "conn_send" /\ res.err = "WrongSendPath"

(* C9: collecting a message object destroys its PDU if and only if the     *)
(* object was made by new_msg and its PDU was never handed to the engine's *)
(* send; the PDU it destroys is live and the script's, every other PDU is  *)
(* the engine's to release, and a PDU of the script's is wrapped by        *)
(* exactly one new_msg object.                                             *)
C9_PduReleasedByOneOwner ==
    /\ \A o \in ObjIds :
          ObjAlive(o) =>
              LET p == objs[o].pdu
                  destroys == _pdu_obj_gc(o)[p].ndel = pdus[p].ndel + 1
              IN  /\ destroys <=>
                        (objs[o].hndlr = ACS_NO_HNDLR /\ pdus[p].nsend = 0)
                  /\ destroys =>
                        (pdus[p].st = "live" /\ pdus[p].own = "script")
                  /\ ~destroys =>
                        (_pdu_obj_gc(o) = pdus /\ pdus[p].own = "engine")
    /\ \A p \in PduIds :
          (pdus[p].st = "live" /\ pdus[p].own = "script") =>
              Cardinality({o \in ObjIds :
                              ObjAlive(o) /\ objs[o].pdu = p
                              /\ objs[o].hndlr = ACS_NO_HNDLR}) = 1

(* C9 witness: the collector finalized a PDU object and its __gc destroyed *)
(* the PDU.                                                                *)
C9_Witness == res.op = "pdu_gc" /\ res.val = LBool(TRUE)

(* C10: finalizing a connection object releases its session if and only    *)
(* if new_connection made the object; the session it releases is an open   *)
(* client session, which has one owning object at most and is released     *)
(* once at most, however many objects refer to it.                         *)
C10_SessionReleasedByOwnerOnly ==
    /\ \A c \in ConnIds :
          conns[c].st = "alive" =>
              LET s == conns[c].session
                  releases == _conn_obj_gc(c)[s].nrel = sessions[s].nrel + 1
              IN  /\ releases <=> conns[c].by = "new_connection"
                  /\ releases => (sessions[s].st = "open" /\ s # ServerSess)
                  /\ ~releases => _conn_obj_gc(c) = sessions
    /\ \A s \in SessIds :
          /\ sessions[s].nrel <= 1
          /\ Cardinality({c \in ConnIds :
                             conns[c].st = "alive" /\ conns[c].session = s
                             /\ conns[c].by = "new_connection"}) <= 1

(* C10 witness: a connection object was finalized and released its         *)
(* session while an object that get_connection made still refers to it.    *)
C10_Witness ==
    /\ res.op = "conn_gc" /\ res.val = LBool(TRUE)
    /\ \E c \in ConnIds :
          /\ conns[c].st = "alive" /\ conns[c].by = "get_connection"
          /\ sessions[conns[c].session].st = "released"

(* unsigned integers of the range 0 .. 2^32-1: the ends of the 1, 2, 3 and *)
(* 4 byte encodings                                                        *)
UIntIn ==
    {LNum(0), LNum(1), LNum(255), LNum(256), LNum(65535), LNum(65536),
     LNum(16777215), LNum(16777216), LNum(2147483647),
     LBig(<<128, 0, 0, 0>>), LBig(<<255, 255, 255, 255>>)}

(* C11: setting an unsigned-integer-classified option to v (0 <= v < 2^32) *)
(* succeeds when the option order allows it; the raw value it adds has 1   *)
(* to 4 bytes and no leading zero byte unless v = 0, decodes to v, and     *)
(* get_option reads v back when the message had no such option before.     *)
C11_UIntOptionRoundTrip ==
    \A o \in ObjIds : Writable(o) =>
        \A t \in UIntTypes, v \in UIntIn :
            \A r \in Call(o, "set_option", <<LNum(t), v>>) :
                LET old == pdus[objs[o].pdu]
                    pdu == r.pdus[objs[o].pdu]
                IN  /\ r.err = "none" <=> t >= max_delta(old)
                    /\ r.err # "none" => r.pdus = pdus
                    /\ r.err = "none" =>
                          /\ pdu.opts = Append(old.opts, LastOpt(pdu))
                          /\ LastOpt(pdu).type = t
                          /\ Len(LastOpt(pdu).val) \in 1..4
                          /\ LastOpt(pdu).val[1] = 0 =>
                                (v = LNum(0) /\ Len(LastOpt(pdu).val) = 1)
                          /\ _push_coap_opt_val(LastOpt(pdu).val, t) = v
                          /\ FirstOpt(old, t) = 0 =>
                                ReadOption(pdu, t) =
                                   [val |-> v, exist |-> LBool(TRUE)]

(* the script set Max-Age to 2^32-1 and read it back *)
C11_Witness ==
    /\ res.op = "get_option"
    /\ res.val = LBig(<<255, 255, 255, 255>>)
    /\ \E o \in ObjIds :
          /\ Writable(o)
          /\ pdus[objs[o].pdu].opts =
                <<[type |-> COAP_OPTION_MAXAGE,
                   val |-> <<255, 255, 255, 255>>]>>

(* byte sequences of length 0, 1, 2 and 255 *)
OpaqueIn ==
    {<<>>, <<ENum(0)>>, <<ENum(255)>>, <<ENum(0), ENum(255)>>, Bytes(255)}

(* what get_option reads after set_option(t, b) went well on a message    *)
(* that had no option of type t                                            *)
ReadBack(o, t, v) ==
    {ReadOption(r.pdus[objs[o].pdu], t) :
        r \in {x \in Call(o, "set_option", <<LNum(t), v>>) :
                  x.err = "none" /\ FirstOpt(pdus[objs[o].pdu], t) = 0}}

(* a sequence of 256 bytes is refused and the message left as it is *)
OpaqueTooLarge(o, t) ==
    Call(o, "set_option", <<LNum(t), LTab(Bytes(256))>>)
        = {Same("OptionTooLarge", LNil)}

(* C12 as stated: every opaque byte sequence of length 0 to 255 set on an  *)
(* opaque-classified option is read back as the same sequence, and one of  *)
(* length 256 is refused with OptionTooLarge, adding no option.            *)
C12_OpaqueRoundTripFromLengthZero ==
    \A o \in ObjIds : Writable(o) =>
        \A t \in OpaqueTypes :
            /\ OpaqueTooLarge(o, t)
            /\ \A b \in OpaqueIn : \A rd \in ReadBack(o, t, LTab(b)) :
                  rd = [val |-> LTab(b), exist |-> LBool(TRUE)]

(* C12 amended: an opaque byte sequence of length 1 to 255 is read back    *)
(* as the same sequence; the empty sequence is read back as no value (of   *)
(* an option that exists); the call succeeds when the option order allows  *)
(* it; a sequence of length 256 is refused with OptionTooLarge, adding no  *)
(* option.                                                                 *)
C12_OpaqueRoundTrip ==
    \A o \in ObjIds : Writable(o) =>
        \A t \in OpaqueTypes :
            /\ OpaqueTooLarge(o, t)
            /\ \A b \in OpaqueIn :
                  /\ \A r \in Call(o, "set_option", <<LNum(t), LTab(b)>>) :
                        /\ r.err = "none" <=>
                              t >= max_delta(pdus[objs[o].pdu])
                        /\ r.err # "none" => r.pdus = pdus
                  /\ \A rd \in ReadBack(o, t, LTab(b)) :
                        rd = [val |-> IF Len(b) = 0 THEN LNil ELSE LTab(b),
                              exist |-> LBool(TRUE)]

(* the script set ETag to the bytes 0, 255 and read them back *)
C12_Witness ==
    /\ res.op = "get_option"
    /\ res.val = LTab(<<ENum(0), ENum(255)>>)
    /\ \E o \in ObjIds :
          /\ Writable(o)
          /\ FirstOpt(pdus[objs[o].pdu], COAP_OPTION_ETAG) # 0

(* values that are no byte sequence: not a table, or a table with an       *)
(* element that is no number or no integer of 0..255                       *)
BadOpaqueIn ==
    {LStr(<<120>>), LNum(5), LBool(TRUE), LTab(<<ENum(1), EStr>>),
     LTab(<<ENum(1), ENum(363)>>), LTab(<<ENum(-1)>>)}

(* C13: set_option of an opaque-classified option is refused, and adds no  *)
(* option, when the value is not a sequence or when an element of it is    *)
(* not an integer of the byte range 0..255.                                *)
C13_BadOpaqueValueRefused ==
    \A o \in ObjIds : Writable(o) =>
        \A t \in OpaqueTypes, v \in BadOpaqueIn :
            \A r \in Call(o, "set_option", <<LNum(t), v>>) :
                r.err # "none" /\ r.pdus = pdus

(* C14: get_option of an unsigned-integer-classified option with the raw   *)
(* bytes b1..bn, n >= 1, returns the big-endian number of all n bytes,     *)
(* whatever n is; a raw value of no byte is read as no value.              *)
C14_UIntReadAccumulatesAllBytes ==
    \A o \in ObjIds :
        (ObjAlive(o) /\ objs[o].lck = 0 /\ PduLive(objs[o].pdu)) =>
            \A t \in UIntTypes :
                LET pdu == pdus[objs[o].pdu]
                    raw == pdu.opts[FirstOpt(pdu, t)].val
                IN  FirstOpt(pdu, t) # 0 =>
                       \A r \in Call(o, "get_option", <<LNum(t)>>) :
                          /\ r.err = "none"
                          /\ r.val = IF Len(raw) = 0 THEN LNil ELSE LInt(raw)

(* option types the static table does not list *)
UnknownTypes == {t \in {9, 2049} : _get_coap_optval_type(t) = OPTVAL_UNKNWN}

(* a number, a text and a sequence of each length class *)
ShapeIn ==
    {LNum(0), LNum(258), LBig(<<255, 255, 255, 255>>), LStr(<<>>),
     LStr(<<97, 0, 255>>), LTab(<<>>), LTab(<<ENum(0), ENum(255)>>)}

(* values that are no number, text or sequence *)
OtherShapeIn == {LNil, LBool(TRUE), LFun, LOther}

(* raw bytes read as an opaque value *)
AsOpaque(raw) ==
    IF Len(raw) = 0 THEN LNil ELSE LTab([i \in 1..Len(raw) |-> ENum(raw[i])])

(* the raw values set_option(t, v) adds when it goes well *)
RawAdded(o, t, v) ==
    {LastOpt(r.pdus[objs[o].pdu]).val :
        r \in {x \in Call(o, "set_option", <<LNum(t), v>>) : x.err = "none"}}

RECURSIVE Highest(_)
Highest(opts) ==
    IF Len(opts) = 0 THEN 0
    ELSE IF Head(opts).type > Highest(Tail(opts)) THEN Head(opts).type
    ELSE Highest(Tail(opts))

(* well-formed set_option calls: every type of 0..20 without value, and a  *)
(* value of each class                                                     *)
OrderIn ==
    {<<LNum(t)>> : t \in 0..20}
        \cup {<<LNum(COAP_OPTION_MAXAGE), LNum(65536)>>,
              <<LNum(COAP_OPTION_ETAG), LTab(<<ENum(0), ENum(255)>>)>>,
              <<LNum(COAP_OPTION_URI_PATH), LStr(<<97>>)>>,
              <<LNum(65536 + COAP_OPTION_ETAG)>>}

(* paths with a segment: "/a/b", "a", {"a", "b"} *)
PathIn ==
    {LStr(<<47, 97, 47, 98>>), LStr(<<97>>),
     LTab(<<EStrOf(<<97>>), EStrOf(<<98>>)>>)}

(* C16: the option types of every message are in non-decreasing order; a   *)
(* set_option, or a set_uri_path with a segment to add, whose type is      *)
(* below the highest option type of the message fails with                 *)
(* OptionOrderViolation and leaves the message as it is, and one whose     *)
(* type is not below it succeeds.                                          *)
C16_OptionsInAscendingOrder ==
    /\ \A p \in PduIds : \A i, j \in 1..Len(pdus[p].opts) :
          i <= j => pdus[p].opts[i].type <= pdus[p].opts[j].type
    /\ \A o \in ObjIds : Writable(o) =>
          LET high == Highest(pdus[objs[o].pdu].opts)
          IN  /\ \A a \in OrderIn :
                    IF a[1].n % 65536 < high
                    THEN Call(o, "set_option", a)
                            = {Same("OptionOrderViolation", LNil)}
                    ELSE \A r \in Call(o, "set_option", a) : r.err = "none"
              /\ \A v \in PathIn :
                    IF COAP_OPTION_URI_PATH < high
                    THEN Call(o, "set_uri_path", <<v>>)
                            = {Same("OptionOrderViolation", LNil)}
                    ELSE \A r \in Call(o, "set_uri_path", <<v>>) :
                            r.err = "none"

(* the script's set_uri_path was refused on a message that holds an option *)
(* of a higher type                                                        *)
C16_Witness ==
    /\ res.op = "set_uri_path"
    /\ res.err = "OptionOrderViolation"
    /\ \E o \in ObjIds :
          Writable(o)
             /\ Highest(pdus[objs[o].pdu].opts) > COAP_OPTION_URI_PATH

(* tokens set_token takes: none, text and byte sequences of 0..8 bytes *)
GoodTokenIn ==
    {<<>>, <<LStr(<<>>)>>, <<LStr(<<116>>)>>,
     <<LStr(<<1, 2, 3, 4, 5, 6, 7, 8>>)>>, <<LTab(<<>>)>>,
     <<LTab(<<ENum(1), ENum(2)>>)>>, <<LTab(Bytes(8))>>}

(* another shape, a non-numeric element, more than 8 bytes *)
BadTokenIn ==
    {<<LNil>>, <<LNum(5)>>, <<LBool(TRUE)>>, <<LOther>>,
     <<LStr(<<1, 2, 3, 4, 5, 6, 7, 8, 9>>)>>, <<LTab(Bytes(9))>>,
     <<LTab(<<ENum(1), EStr>>)>>, <<LTab(<<EStr>>)>>}

(* the bytes a token argument stands for *)
TokenBytes(a) ==
    IF Len(a) = 0 THEN <<>>
    ELSE IF a[1].t = "string" THEN a[1].s
    ELSE [i \in 1..Len(a[1].e) |-> a[1].e[i].n]

(* C17: set_token takes no argument, a text or a byte sequence of 0..8     *)
(* bytes: none of them fails with InvalidToken, and on a message that      *)
(* holds nothing yet the token becomes those bytes; any other shape, a     *)
(* sequence with a non-numeric element and a length above 8 fail with      *)
(* InvalidToken and leave the message as it is.                            *)
C17_TokenArgumentChecked ==
    \A o \in ObjIds : Writable(o) =>
        /\ \A a \in BadTokenIn :
              Call(o, "set_token", a) = {Same("InvalidToken", LNil)}
        /\ \A a \in GoodTokenIn : \A r \in Call(o, "set_token", a) :
              /\ r.err # "InvalidToken"
              /\ used_size(pdus[objs[o].pdu]) = 0 =>
                    /\ r.err = "none"
                    /\ r.pdus = [pdus EXCEPT
                                    ![objs[o].pdu].token = TokenBytes(a)]

(* the script's set_token was refused for its argument *)
C17_Witness ==
    /\ res.op = "set_token"
    /\ res.err = "InvalidToken"
    /\ \E o \in ObjIds : Writable(o)

(* C18: set_token on a message that holds at least one option fails with   *)
(* TokenOrderViolation and leaves the message as it is; set_token on a     *)
(* message without options succeeds and sets the token.                    *)
C18_TokenBeforeOptions ==
    \A o \in ObjIds : Writable(o) =>
        \A a \in GoodTokenIn :
            IF Len(pdus[objs[o].pdu].opts) > 0
            THEN Call(o, "set_token", a) = {Same("TokenOrderViolation", LNil)}
            ELSE Call(o, "set_token", a)
                    = {WithPdus([pdus EXCEPT
                                    ![objs[o].pdu].token = TokenBytes(a)],
                                LNone)}

(* the non-empty segments between the slashes of a path, cur being the     *)
(* segment read so far                                                     *)
RECURSIVE SegmentsOf(_, _)
SegmentsOf(s, cur) ==
    LET done == IF Len(cur) > 0 THEN <<cur>> ELSE <<>>
    IN  IF Len(s) = 0 THEN done
        ELSE IF Head(s) = 47 THEN done \o SegmentsOf(Tail(s), <<>>)
        ELSE SegmentsOf(Tail(s), Append(cur, Head(s)))

(* "/" before every segment *)
RECURSIVE SlashJoined(_)
SlashJoined(segs) ==
    IF Len(segs) = 0 THEN <<>>
    ELSE <<47>> \o Head(segs) \o SlashJoined(Tail(segs))

(* "", "/", "//", "a", "/a", "a/", "ab", "/a/b/c", "//a//b/", "ab/c",      *)
(* "/a/bc/"                                                                *)
PathStrIn ==
    {<<>>, <<47>>, <<47, 47>>, <<97>>, <<47, 97>>, <<97, 47>>, <<97, 98>>,
     <<47, 97, 47, 98, 47, 99>>, <<47, 47, 97, 47, 47, 98, 47>>,
     <<97, 98, 47, 99>>, <<47, 97, 47, 98, 99, 47>>}

(* C19: on a message without Uri-Path options that can take one,           *)
(* set_uri_path with a path string appends one Uri-Path option per         *)
(* non-empty segment between the slashes, in order, and nothing else; the  *)
(* string form of get_uri_path then gives "/" and the segments joined by   *)
(* "/" (so "/a/b/c" is read back as it was written), or nil when the path  *)
(* has no segment.                                                         *)
C19_UriPathStringRoundTrip ==
    \A o \in ObjIds :
        (/\ Writable(o)
         /\ Len(UriPathOpts(pdus[objs[o].pdu])) = 0
         /\ max_delta(pdus[objs[o].pdu]) <= COAP_OPTION_URI_PATH) =>
        \A p \in PathStrIn :
            LET segs == SegmentsOf(p, <<>>)
                pdu == pdus[objs[o].pdu]
                new == [pdu EXCEPT
                          !.opts = @ \o [i \in 1..Len(segs) |->
                                            [type |-> COAP_OPTION_URI_PATH,
                                             val |-> segs[i]]]]
            IN  /\ Call(o, "set_uri_path", <<LStr(p)>>)
                      = {WithPdus([pdus EXCEPT ![objs[o].pdu] = new], LNone)}
                /\ ReadUriPath(new, FALSE)
                      = IF Len(segs) = 0 THEN LNil
                        ELSE LStr(SlashJoined(segs))
                /\ p = SlashJoined(segs) /\ Len(p) > 0 =>
                      ReadUriPath(new, FALSE) = LStr(p)

(* the script read "/a/b" from a message whose Uri-Path options are "a"    *)
(* and "b"                                                                 *)
C19_Witness ==
    /\ res.op = "get_uri_path"
    /\ res.val = LStr(<<47, 97, 47, 98>>)
    /\ \E o \in ObjIds :
          /\ Writable(o)
          /\ UriPathOpts(pdus[objs[o].pdu])
                = <<[type |-> COAP_OPTION_URI_PATH, val |-> <<97>>],
                    [type |-> COAP_OPTION_URI_PATH, val |-> <<98>>]>>

(* segment sequences: {"a", "b", "c"}, {"a"}, {"ab", "c"}, {"a", "", "b"}, *)
(* {""}, {}                                                                *)
SegSeqIn ==
    {<<<<97>>, <<98>>, <<99>>>>, <<<<97>>>>, <<<<97, 98>>, <<99>>>>,
     <<<<97>>, <<>>, <<98>>>>, <<<<>>>>, <<>>}

(* C20: on a message without Uri-Path options that can take one,           *)
(* set_uri_path with a sequence of segments does what set_uri_path with    *)
(* the string "/s1/.../sn" does: it appends one Uri-Path option per        *)
(* non-empty segment, in order, and none for an empty segment.             *)
C20_UriPathFormsAgree ==
    \A o \in ObjIds :
        (/\ Writable(o)
         /\ Len(UriPathOpts(pdus[objs[o].pdu])) = 0
         /\ max_delta(pdus[objs[o].pdu]) <= COAP_OPTION_URI_PATH) =>
        \A segs \in SegSeqIn :
            LET tab == LTab([i \in 1..Len(segs) |-> EStrOf(segs[i])])
                str == LStr(SlashJoined(segs))
                pdu == pdus[objs[o].pdu]
                full == SelectSeq(segs, LAMBDA x : Len(x) > 0)
                new == [pdu EXCEPT
                          !.opts = @ \o [i \in 1..Len(full) |->
                                            [type |-> COAP_OPTION_URI_PATH,
                                             val |-> full[i]]]]
            IN  /\ Call(o, "set_uri_path", <<tab>>)
                      = Call(o, "set_uri_path", <<str>>)
                /\ Call(o, "set_uri_path", <<tab>>)
                      = {WithPdus([pdus EXCEPT ![objs[o].pdu] = new], LNone)}

(* an object whose read methods the dispatcher serves *)
Readable(o) == ObjAlive(o) /\ objs[o].lck = 0 /\ PduLive(objs[o].pdu)

(* C21: get_uri_path in its array form returns nil for a message without   *)
(* Uri-Path option and otherwise the sequence, indexed from 1 without      *)
(* gaps, whose i-th entry is the segment of the i-th Uri-Path option.      *)
C21_UriPathArrayWithoutGaps ==
    \A o \in ObjIds : Readable(o) =>
        LET up == UriPathOpts(pdus[objs[o].pdu])
        IN  Call(o, "get_uri_path", <<LBool(TRUE)>>)
              = {Same("none",
                      IF Len(up) = 0 THEN LNil
                      ELSE LTab([i \in 1..Len(up) |-> EStrOf(up[i].val)]))}

(* s without the whitespace it begins and ends with *)
RECURSIVE Trimmed(_)
Trimmed(s) ==
    IF Len(s) = 0 THEN s
    ELSE IF isspace(Head(s)) THEN Trimmed(Tail(s))
    ELSE IF isspace(s[Len(s)]) THEN Trimmed(SubSeq(s, 1, Len(s) - 1))
    ELSE s

(* the bytes before the first "=" of a query option, and those after it *)
NamePart(q) ==
    IF \E k \in 1..Len(q) : q[k] = 61
    THEN SubSeq(q, 1, Min({k \in 1..Len(q) : q[k] = 61}) - 1)
    ELSE q

ValuePart(q) ==
    IF \E k \in 1..Len(q) : q[k] = 61
    THEN SubSeq(q, Min({k \in 1..Len(q) : q[k] = 61}) + 1, Len(q))
    ELSE <<>>

(* C22: for every Uri-Query option the parser reports as name the bytes    *)
(* before the first "=" and as value the bytes after it (none without      *)
(* "="), both without the whitespace they begin and end with, so that a    *)
(* value made of whitespace only is no value.                              *)
C22_QueryNameAndValueTrimmed ==
    \A p \in PduIds : pdus[p].st = "live" =>
        \A k \in 1..Len(UriQueryOpts(pdus[p])) :
            LET q == UriQueryOpts(pdus[p])[k].val
                r == _parse_next_coap_qstr_param(q)
            IN  /\ r.name = Trimmed(NamePart(q))
                /\ r.val = Trimmed(ValuePart(q))

(* names looked up: "a", "A", "flag", "name", " ", "x" *)
LookupIn ==
    {<<97>>, <<65>>, <<102, 108, 97, 103>>, <<110, 97, 109, 101>>, <<32>>,
     <<120>>}

(* C23: a Uri-Query option whose name is empty once the whitespace around  *)
(* it is taken away never surfaces: no step of the parameter iterator      *)
(* yields it, and get_qstr_param finds a parameter only where an option's  *)
(* trimmed, non-empty name is the name asked for.                          *)
C23_EmptyNameNeverSurfaces ==
    /\ (res.op = "qstr_step" /\ res.err = "none" /\ res.val.t = "string")
          => Trimmed(res.val.s) # <<>>
    /\ \A o \in ObjIds : Readable(o) =>
          \A n \in LookupIn :
              \A r \in Call(o, "get_qstr_param", <<LStr(n)>>) :
                  r.exist =>
                      \E k \in 1..Len(UriQueryOpts(pdus[objs[o].pdu])) :
                          Trimmed(NamePart(
                              UriQueryOpts(pdus[objs[o].pdu])[k].val)) = n

StepOf(i) ==
    IF iters[i].kind = "qstr" THEN _coap_qstr_param_iter(i)
    ELSE _coap_option_iter(i)

(* C25: once a step on an iteration state, of the option iterator or of    *)
(* the parameter iterator, has returned the completion value (a single     *)
(* nil), every later step on that state returns it too and yields no       *)
(* element.                                                                *)
C25_CompletionIsFinal ==
    \A i \in IterIds :
        (iters[i].st = "live" /\ iters[i].fin > 0) =>
            \A r \in StepOf(i) :
                r.err = "none" /\ r.val = LNil /\ r.val2 = LNone

(* a parameter iteration returned the completion value a second time,      *)
(* after the handler returned and the request was released                 *)
C25_Witness ==
    /\ res.op = "qstr_step" /\ res.val = LNil /\ res.val2 = LNone
    /\ hctx = NoHndlr
    /\ \E i \in IterIds :
          iters[i].st = "live" /\ iters[i].kind = "qstr" /\ iters[i].fin = 2

(* C26: qstr_params with 0 to 10 names makes an iteration state that       *)
(* holds one registry reference per name; with more than 10 names it       *)
(* fails with TooManyFilterArgs, makes no state and takes no reference.    *)
C26_AtMostTenFilterNames ==
    \A o \in ObjIds :
        (/\ Readable(o) /\ FreeIters # {}
         /\ Cardinality(RefIds \ registry) >= MAX_QSTR_PARAMS_ARGS) =>
        \A n \in 0..(MAX_QSTR_PARAMS_ARGS + 2) :
            \A r \in Call(o, "qstr_params", Names(n)) :
                IF n <= MAX_QSTR_PARAMS_ARGS
                THEN /\ r.err = "none"
                     /\ r.reg \cap registry = registry
                     /\ Cardinality(r.reg \ registry) = n
                     /\ LET it == r.iters[Min(FreeIters)]
                        IN  /\ it.st = "live" /\ it.n_refs = n
                            /\ {it.refs[k] : k \in 1..n} = r.reg \ registry
                            /\ it.names = [k \in 1..n |-> Names(n)[k].s]
                ELSE r = Same("TooManyFilterArgs", LNil)

(* the script's qstr_params with 11 names was refused *)
C26_Witness ==
    /\ res.op = "qstr_params"
    /\ res.err = "TooManyFilterArgs"
    /\ iters = NoIters
    /\ \E o \in ObjIds : Readable(o)

(* the references a parameter iteration took when it was made *)
RefsOf(it) == {it.refs[k] : k \in 1..Len(it.refs)}

(* the parameter iterations that have not returned the completion value *)
Holding ==
    {i \in IterIds : iters[i].st = "live" /\ iters[i].kind = "qstr"
                      /\ iters[i].fin = 0}

(* C27: a parameter iteration that has not returned the completion value   *)
(* holds every reference it took, whatever was stepped or released         *)
(* meanwhile: all of them are in the registry, none was given back, and    *)
(* none is held by another iteration; one that has returned it, once or    *)
(* more often, holds none, and luaL_unref was called exactly once for      *)
(* each reference (the registry may hand a released reference out again,   *)
(* so the registry itself says nothing about a finished iteration).        *)
C27_ReferencesReleasedOnceOnCompletion ==
    /\ \A i \in IterIds :
          (iters[i].st = "live" /\ iters[i].kind = "qstr") =>
              IF iters[i].fin = 0
              THEN /\ iters[i].n_refs = Len(iters[i].refs)
                   /\ RefsOf(iters[i]) \subseteq registry
                   /\ iters[i].nunref = 0
              ELSE /\ iters[i].n_refs = 0
                   /\ iters[i].nunref = Len(iters[i].refs)
    /\ \A i, j \in Holding :
          i # j => RefsOf(iters[i]) \cap RefsOf(iters[j]) = {}

(* an iteration with two names returned the completion value twice and     *)
(* its two references were given back once, while the reference of an      *)
(* iteration the script dropped before its end is still in the registry    *)
C27_Witness ==
    /\ res.op = "qstr_step" /\ res.val = LNil /\ res.val2 = LNone
    /\ \E i \in IterIds :
          /\ iters[i].st = "live" /\ iters[i].kind = "qstr"
          /\ iters[i].fin = 2
          /\ iters[i].refs = <<2, 3>>
          /\ iters[i].nunref = 2
    /\ registry = {1}

(* the default response code the description gives for a request code, by  *)
(* the method numbers of RFC 7252 and RFC 8132                             *)
DefaultFor(code) ==
    IF code \in {1, 5} THEN 205
    ELSE IF code \in {2, 6, 7} THEN 204
    ELSE IF code = 3 THEN 201
    ELSE IF code = 4 THEN 202
    ELSE 0

(* C28: while a request handler runs, the default code of its response     *)
(* object is the one of the request's method: 205 for GET and FETCH, 204   *)
(* for POST, PATCH and IPATCH, 201 for PUT, 202 for DELETE; and every      *)
(* other code of the request class (0.00 to 0.31) has the empty default.   *)
C28_DefaultCodeFromRequestMethod ==
    /\ hctx.kind = "req" =>
          /\ objs[hctx.b].def_code = DefaultFor(pdus[objs[hctx.a].pdu].code)
          /\ objs[hctx.a].def_code = 0
    /\ \A c \in 0..31 :
          /\ _get_coap_resp_code(c) = DefaultFor(c)
          /\ c \notin 1..7 => _get_coap_resp_code(c) = 0

(* a FETCH request is in its handler and the response object defaults to   *)
(* 205, with handlers registered for the other two events                  *)
C28_Witness ==
    /\ hctx.kind = "req"
    /\ pdus[objs[hctx.a].pdu].code = COAP_REQUEST_FETCH
    /\ objs[hctx.b].def_code = 205
    /\ pdus[objs[hctx.b].pdu].code = 0
    /\ lib_ctx.resph # LUA_NOREF /\ lib_ctx.nackh # LUA_NOREF

(* what an event of kind k does about its handler: with a reference in     *)
(* field h the callback runs the referenced function, else with a global   *)
(* function of the name it runs that one, else it runs nothing, makes no   *)
(* object and no message, and sends nothing                                *)
EventOutcome(h, name, k) ==
    IF lib_ctx[h] # LUA_NOREF
    THEN /\ hctx'.kind = k
         /\ hctx'.fn = LNum(lib_ctx[h])
         /\ lib_ctx[h] \in registry
    ELSE IF name \in globals
    THEN /\ hctx'.kind = k
         /\ hctx'.fn = LStr(name)
    ELSE /\ hctx' = NoHndlr
         /\ objs' = objs
         /\ \A p \in PduIds :
               /\ pdus[p].st = "unused" => pdus'[p].st = "unused"
               /\ pdus'[p].nsend <= pdus[p].nsend
         /\ res'.err = "dropped"

(* C29: every request, response and NACK event runs the function of the    *)
(* registered reference when one is set, else the global function of the   *)
(* event's default name; with neither, no handler runs and no message      *)
(* object is made: the request or NACK is dropped with nothing sent, and   *)
(* the response is answered by the automatic acknowledgement alone.        *)
C29_HandlerResolution ==
    [][/\ _coap_req_hndlr(EvtCodeIn) =>
             EventOutcome("reqh", REQ_HANDLER, "req")
       /\ _coap_resp_hndlr =>
             /\ EventOutcome("resph", RESP_HANDLER, "resp")
             /\ (lib_ctx.resph = LUA_NOREF /\ RESP_HANDLER \notin globals) =>
                   /\ res'.ret = LNone
                   /\ res'.type = COAP_MESSAGE_CON => res'.val.t = "number"
       /\ _coap_nack_hndlr =>
             EventOutcome("nackh", NACK_HANDLER, "nack")]_vars

(* a response handler runs by its registered reference although the global *)
(* function of the default name is defined as well, while no request       *)
(* handler is registered or defined                                        *)
C29_Witness ==
    /\ hctx.kind = "resp"
    /\ RESP_HANDLER \in globals
    /\ lib_ctx.resph # LUA_NOREF
    /\ hctx.fn = LNum(lib_ctx.resph)
    /\ lib_ctx.reqh = LUA_NOREF /\ REQ_HANDLER \notin globals

(* the empty ACK a response event has to send: one with the id of the      *)
(* received message when that is Confirmable and the handler, if any ran,  *)
(* did not return false; none otherwise                                    *)
AckFor(type, tid, ret) ==
    IF type = 0 /\ ret # LBool(FALSE) THEN LNum(tid) ELSE LNil

C30_WitnessNonBoolean ==
    /\ res.op = "resp_return"
    /\ res.ret = LNum(1)
    /\ res.type = COAP_MESSAGE_CON
    /\ res.val = LNum(1)

(* the connections a parameter can be set on *)
Usable(c) == conns[c].st = "alive" /\ SessOpen(c)

(* C31: set_max_retransmit and set_ack_timeout with a value of zero or     *)
(* less raise InvalidArgument as an error the script can catch, and leave  *)
(* the session as it was.                                                  *)
C31_NonPositiveRefused ==
    \A c \in ConnIds :
        Usable(c) =>
            \A v \in {LNum(0), LNum(-1), LNum(-1000)} :
                \A r \in l_coap_conn_set_max_retransmit(c, <<v>>)
                            \cup l_coap_conn_set_ack_timeout(c, <<v>>) :
                    /\ ~r.halt
                    /\ r.err = "InvalidArgument"
                    /\ r.sessions = sessions

(* C35: for a timeout t > 0 in milliseconds set_ack_timeout stores t div   *)
(* 1000 and t mod 1000 in the two fields of the session, and               *)
(* get_ack_timeout computes t from them again.                             *)
C35_AckTimeoutRoundTrip ==
    \A c \in ConnIds :
        Usable(c) =>
            \A v \in AckTimeoutIn :
                (v.t = "number" /\ v.n > 0) =>
                    \A r \in l_coap_conn_set_ack_timeout(c, <<v>>) :
                        LET t == r.sessions[conns[c].session].ack_timeout
                        IN  /\ ~r.halt /\ r.err = "none"
                            /\ t.integer_part = v.n \div 1000
                            /\ t.fractional_part = v.n % 1000
                            /\ ack_timeout_ms(t) = v.n

(* a message made by new_msg that was not sent yet *)
Fresh(m) ==
    /\ ObjAlive(m) /\ objs[m].hndlr = ACS_NO_HNDLR /\ objs[m].lck = 0
    /\ PduLive(objs[m].pdu) /\ pdus[objs[m].pdu].own = "script"

(* C32: when the engine's send of a fresh message fails, conn.send returns *)
(* without an error and without a value, the process goes on, and the      *)
(* message object is locked, object for object as after a send that        *)
(* succeeded.                                                              *)
C32_FailedSendIsNotFatal ==
    \A c \in ConnIds, m \in ObjIds :
        (Usable(c) /\ Fresh(m)) =>
            \A parg \in PayloadIn :
                \A r \in l_coap_conn_send(c, m, parg) :
                    ("tid" \in DOMAIN r /\ r.tid = COAP_INVALID_TID) =>
                        /\ ~r.halt
                        /\ r.err = "none" /\ r.val = LNone
                        /\ r.objs[m].lck = 1
                        /\ \A q \in l_coap_conn_send(c, m, parg) :
                              ("tid" \in DOMAIN q /\ q.tid # COAP_INVALID_TID)
                                  => /\ q.objs = r.objs
                                     /\ q.err = r.err /\ q.val = r.val

(* the send of a fresh message failed: conn.send returned, the message is  *)
(* released and its object is locked                                       *)
C32_Witness ==
    /\ ~halted
    /\ res.op = "conn_send" /\ res.err = "none" /\ res.val = LNone
    /\ "tid" \in DOMAIN res /\ res.tid = COAP_INVALID_TID
    /\ \E m \in ObjIds :
          /\ ObjAlive(m) /\ objs[m].lck = 1
          /\ pdus[objs[m].pdu].st = "freed"
          /\ pdus[objs[m].pdu].nsend = 1

(* the references the library context holds for its three handlers *)
HndlrFields == {"reqh", "resph", "nackh"}

Held == {lib_ctx[h] : h \in HndlrFields} \ {LUA_NOREF}

(* C33: whatever was registered, cleared, bound or torn down, the registry *)
(* holds exactly the references the context holds for its handlers: each   *)
(* handler has at most one, no two handlers share one, none that was       *)
(* overwritten, reset to the default or torn down is left behind, and none *)
(* that is held was released (so that each one is released once only).     *)
C33_OneReferencePerHandler ==
    /\ registry = Held
    /\ \A h, k \in HndlrFields :
          (h # k /\ lib_ctx[h] # LUA_NOREF) => lib_ctx[h] # lib_ctx[k]
    /\ (res.op = "close") => registry = {}

(* the request handler was registered a second time and the response       *)
(* handler once: the first reference of the request handler is released    *)
C33_Witness ==
    /\ lib_ctx.reqh = 3 /\ lib_ctx.resph = 2 /\ lib_ctx.nackh = LUA_NOREF
    /\ registry = {2, 3}
    /\ lib_ctx.ep # 0

(* C40: a bind_server call that raises an error leaves the library context *)
(* as it was, bound endpoint and request handler included, and a           *)
(* bind_server call without a handler argument leaves the request handler  *)
(* as it was.                                                              *)
C40_FailedBindChangesNothing ==
    ~halted =>
        \A port \in PortIn \cup {5683}, resolves \in BOOLEAN,
           epOk \in BOOLEAN, arg \in HndlrArgIn :
            LET r == BindServer(port, resolves, epOk, arg)
            IN  /\ r.err # "none" => (r.ctx = lib_ctx /\ r.reg = registry)
                /\ arg = LNone => r.ctx.reqh = lib_ctx.reqh

(* the payload argument of a finalize send with arguments a, and the bytes *)
(* a text or a byte sequence stands for                                    *)
PayloadArg(a) == IF Arg(a, 1).t = "number" THEN Arg(a, 2) ELSE Arg(a, 1)

ValidPayload(v) ==
    \/ v.t \in {"none", "string"}
    \/ v.t = "table" /\ \A i \in 1..Len(v.e) : v.e[i].t = "number"

PayloadOf(v) ==
    IF v.t = "string" THEN v.s
    ELSE IF v.t = "table" THEN [i \in 1..Len(v.e) |-> v.e[i].n % 256]
    ELSE <<>>

(* the response object of the request handler that runs is writable *)
InReqHndlr == hctx.kind = "req" /\ Writable(hctx.b)

(* C39: a finalize send that raises an error for its payload argument      *)
(* (neither text nor a byte sequence, or a sequence with a non-numeric     *)
(* element) leaves the response as it was: same code, no payload           *)
(* attached, object not locked.                                            *)
C39_RefusedPayloadChangesNothing ==
    InReqHndlr =>
        \A a \in SendIn : \A r \in Call(hctx.b, "send", a) :
            LET p == objs[hctx.b].pdu
            IN  ~ValidPayload(PayloadArg(a)) =>
                    /\ r.err = "InvalidArgument"
                    /\ r.pdus[p].code = pdus[p].code
                    /\ r.pdus[p].data = pdus[p].data
                    /\ r.objs[hctx.b].lck = 0

(* the code a finalize send with arguments a leaves in the response of the *)
(* running handler, a code argument that encodes to the empty code         *)
(* counted as given (asGiven) or as emptying the code                      *)
CodeAfterSend(a, asGiven) ==
    LET p == objs[hctx.b].pdu
        given == Arg(a, 1).t = "number"
        enc == COAP_RESPONSE_CODE(Arg(a, 1).n)
        def == COAP_RESPONSE_CODE(DefaultFor(pdus[objs[hctx.a].pdu].code))
    IN  IF given /\ (asGiven \/ enc # 0) THEN enc
        ELSE IF ~given /\ pdus[p].code # 0 THEN pdus[p].code
        ELSE def

(* the outcome of every finalize send with a valid payload: no error, the  *)
(* payload attached, the object locked, and the code as CodeAfterSend      *)
SendOutcome(asGiven) ==
    InReqHndlr =>
        \A a \in SendIn : \A r \in Call(hctx.b, "send", a) :
            LET p == objs[hctx.b].pdu
            IN  ValidPayload(PayloadArg(a)) =>
                    /\ r.err = "none" /\ ~r.halt
                    /\ r.objs[hctx.b].lck = 1
                    /\ r.pdus[p].data = PayloadOf(PayloadArg(a))
                    /\ r.pdus[p].code = CodeAfterSend(a, asGiven)

KeptHndlrObjs ==
    {o \in ObjIds : /\ ObjAlive(o)
                    /\ objs[o].hndlr # ACS_NO_HNDLR
                    /\ o \notin {hctx.a, hctx.b}}

(* C38: after a request, response or NACK handler has returned, a message  *)
(* object it was given and the script kept can no longer be used to read   *)
(* or to write the engine PDU it wrapped: every method called on it is     *)
(* refused and leaves the PDUs alone.                                      *)
C38_HandlerObjectScopeEndsWithCallback ==
    \A o \in KeptHndlrObjs : \A fn \in MethodIn : \A a \in ArgsOf(fn) :
        \A r \in Call(o, fn, a) :
            /\ r.err \notin {"none", "crash"}
            /\ r.pdus = pdus

(* what an option iteration yields from iteration state it on, step by     *)
(* step up to the completion sentinel, on a PDU that is live               *)
RECURSIVE Yields(_)
Yields(it) ==
    LET r == CHOOSE x \in OptionIterFrom(it) : TRUE
    IN  IF r.val.t = "nil" THEN <<>>
        ELSE <<[type |-> r.val, val |-> r.val2]>> \o Yields(r.it)

(* the options of opts whose type is in the set types, in their order,     *)
(* each as (type, decoded value)                                           *)
RECURSIVE OptionsOfTypes(_, _)
OptionsOfTypes(opts, types) ==
    IF Len(opts) = 0 THEN <<>>
    ELSE (IF Head(opts).type \in types
          THEN <<[type |-> LNum(Head(opts).type),
                  val |-> _push_coap_opt_val(Head(opts).val,
                                             Head(opts).type)]>>
          ELSE <<>>)
         \o OptionsOfTypes(Tail(opts), types)

(* C36: the option iterator made with a non-empty set of option types      *)
(* yields exactly the options of the message whose type is in that set,    *)
(* each as (type, decoded value), in the message's option order and each   *)
(* once; made with no type it yields every option of the message.          *)
C36_OptionIteratorYieldsFilteredOptions ==
    \A o \in ObjIds :
        (ObjAlive(o) /\ objs[o].lck = 0 /\ PduLive(objs[o].pdu)
            /\ FreeIters # {}) =>
        \A a \in OptionsIn :
            (\A k \in 1..Len(a) : IsInt(a[k])) =>
            \A r \in Call(o, "options", a) :
                /\ r.err = "none"
                /\ Yields(r.iters[Min(FreeIters)])
                     = OptionsOfTypes(
                           pdus[objs[o].pdu].opts,
                           IF Len(a) = 0
                           THEN {pdus[objs[o].pdu].opts[k].type :
                                    k \in 1..Len(pdus[objs[o].pdu].opts)}
                           ELSE {a[k].n : k \in 1..Len(a)})

(* the iteration states made from a message whose object is locked by now  *)
OfLockedMsg ==
    {i \in IterIds :
        /\ iters[i].st = "live"
        /\ \E o \in ObjIds : /\ ObjAlive(o)
                             /\ objs[o].lck = 1
                             /\ objs[o].pdu = iters[i].pdu}

(* C37: an option or query-parameter iteration made from a message yields  *)
(* no element once the message is locked: each step then returns the       *)
(* completion sentinel only and does not read the PDU.                     *)
C37_NoElementOnceLocked ==
    \A i \in OfLockedMsg :
        /\ ~ReadsPdu(iters[i])
        /\ \A r \in StepOf(i) : ~r.halt /\ r.val = LNil /\ r.val2 = LNone

=============================================================================
